---- MODULE Spec2Model ----
(***************************************************************************)
(* FloatChat chat-state store (src/src/contexts/FloatChatContext.tsx):     *)
(* the floatChatReducer, the provider's startup load from localStorage,    *)
(* and the JSON conversion between the in-memory history and the value     *)
(* kept under the 'floatChatHistory' key.                                  *)
(*                                                                         *)
(* JavaScript values are modelled as records of one shape so that values   *)
(* of different JavaScript types can be compared:                          *)
(*   numbers / null / undefined : [t, n]                                   *)
(*   a FloatData slot           : [t, depth]                               *)
(*   strings with content       : sequences of one-character strings       *)
(*   ChatHistory | null         : a sequence of at most one conversation   *)
(*   a value of any JSON type   : [kind, items] (items used for arrays)    *)
(***************************************************************************)
EXTENDS Integers, Sequences, FiniteSets, TLC

VARIABLES
    pc,                        \* "boot" before the mount effect, "ready" after it, "crashed" after an uncaught throw
    isOpen,                    \* FloatChatState.isOpen
    currentChat,               \* FloatChatState.currentChat: <<>> is null, <<c>> is the conversation c
    chatHistory,               \* FloatChatState.chatHistory as a JavaScript value
    isVisualizationPanelOpen,  \* FloatChatState.isVisualizationPanelOpen
    selectedFloatData,         \* FloatChatState.selectedFloatData
    isUploading,               \* FloatChatState.isUploading
    error,                     \* FloatChatState.error: <<>> is null
    storage,                   \* localStorage item 'floatChatHistory'
    now,                       \* the wall clock read by new Date(), in ticks
    idCount,                   \* number of generateId() calls so far
    file,                      \* the File handed to uploadFile
    uploadResult,              \* the promise uploadFile returned
    parserCalls,               \* the parsers uploadFile has called, in call order
    backendReply,              \* what the fetch to the semantic-search backend yields
    llmReply,                  \* what the fetch to the chat-completions endpoint yields
    queryResponse,             \* the promise semanticQuery returned
    mounted,                   \* whether a ChatInterface instance is rendered (FloatChat returns null when closed)
    isProcessing,              \* ChatInterface's isProcessing state, of the rendered instance
    isMapMode,                 \* ChatInterface's isMapMode state, of the rendered instance
    inflight,                  \* the handler calls that are suspended at an await
    effectSeen,                \* the selectedFloatData value the Dashboard's effect last ran for
    floatData,                 \* Dashboard's floatData state (map and globe rows)
    tableData,                 \* Dashboard's tableData state (table and export rows)
    chartData,                 \* Dashboard's chartData state
    extractions,               \* processVisualizationData calls suspended at the text extraction
    sortField,                 \* DataTable's sortField state: <<>> is null
    sortDirection,             \* DataTable's sortDirection state: <<>> is null
    searchTerm,                \* DataTable's searchTerm state: <<>> is the empty string
    filteredAndSortedData      \* DataTable's memoised rows

\* the file-ingestion call and the remote-query call
uploadVars == <<file, uploadResult, parserCalls>>
queryVars  == <<backendReply, llmReply, queryResponse>>

\* the state of the components that read the store
chatVars  == <<mounted, isProcessing, isMapMode, inflight>>
dashVars  == <<effectSeen, floatData, tableData, chartData, extractions>>
tableVars == <<sortField, sortDirection, searchTerm, filteredAndSortedData>>
viewVars  == <<chatVars, dashVars, tableVars>>

vars == <<pc, isOpen, currentChat, chatHistory, isVisualizationPanelOpen,
          selectedFloatData, isUploading, error, storage, now, idCount,
          uploadVars, queryVars, viewVars>>

\* ---------------------------------------------------------------- bounds
MaxIds == 3    \* generateId() calls in one run

\* ------------------------------------------------------- program constants
TitleLimit == 50

Min(a, b) == IF a < b THEN a ELSE b

Rep(c, n) == [i \in 1..n |-> c]

\* ------------------------------------------------------------ JS values
Num(k)    == [t |-> "num", n |-> k]
Infinity  == [t |-> "inf", n |-> 0]
NaN       == [t |-> "nan", n |-> 0]
JsNull    == [t |-> "null", n |-> 0]
Undefined == [t |-> "undef", n |-> 0]
Str       == [t |-> "str", n |-> 0]
EmptyStr  == [t |-> "estr", n |-> 0]

NoFloatData    == [t |-> "undef", depth |-> Undefined]
NullFloatData  == [t |-> "null", depth |-> Undefined]
FloatDataOf(d) == [t |-> "obj", depth |-> d]

\* String.prototype.slice(0, n)
slice(s, n) == SubSeq(s, 1, Min(n, Len(s)))

NewChatTitle == <<"N", "e", "w", " ", "C", "h", "a", "t">>
Ellipsis     == <<".", ".", ".">>

\* ------------------------------------------------- uploaded CSV numbers
\* parseFloat on the cell texts used here
parseFloat(value) ==
    CASE value = "0"        -> Num(0)
      [] value = "10"       -> Num(10)
      [] value = "Infinity" -> Infinity
      [] OTHER              -> NaN

\* Papa.parse transform: a cell becomes a number unless parseFloat gives NaN
transform(value) ==
    LET num == parseFloat(value)
    IN  IF num.t = "nan" THEN (IF value = "" THEN EmptyStr ELSE Str) ELSE num

\* JavaScript truthiness of a cell value (a non-empty string is truthy)
Truthy(v) == \/ v.t = "str"
             \/ v.t = "inf"
             \/ (v.t = "num" /\ v.n /= 0)

\* depth of the profile built from row number index whose depth cell is value
csvDepth(value, index) ==
    LET cell  == transform(value)
        depth == IF Truthy(cell) THEN cell ELSE Num(index * 10)
    IN  IF depth.t \in {"num", "inf"} THEN depth ELSE Num(0)

CsvCells == {"10", "Infinity"}

\* FloatData values that reach the store (message attachments, panel payloads)
FloatDatas == {FloatDataOf(csvDepth(c, 0)) : c \in CsvCells}

\* ------------------------------------------------------------- payloads
UserContents     == {Rep("a", TitleLimit), Rep("a", TitleLimit + 1)}
AssistantContent == <<"o", "k">>

\* Omit<ChatMessage, 'id' | 'timestamp'> values dispatched with ADD_MESSAGE
Payloads ==
    {[type |-> "user", content |-> c, floatData |-> NoFloatData] : c \in UserContents}
    \cup
    {[type |-> "assistant", content |-> AssistantContent, floatData |-> fd] :
        fd \in {NoFloatData} \cup FloatDatas}

ErrorTexts == {<<>>, <<"e">>}

\* ------------------------------------------------------ JSON conversion
\* JSON.stringify of a number: NaN and the infinities are written as null
StringifyNumber(v) == IF v.t \in {"inf", "nan"} THEN JsNull ELSE v

\* JSON.stringify of the floatData property: an undefined property is left
\* out (and reads back as undefined), null stays null
StringifyFloatData(fd) ==
    IF fd.t = "obj" THEN [t |-> "obj", depth |-> StringifyNumber(fd.depth)] ELSE fd

StringifyMessage(m) == [m EXCEPT !.floatData = StringifyFloatData(m.floatData)]

StringifyChat(c) ==
    [c EXCEPT !.messages = [i \in 1..Len(c.messages) |-> StringifyMessage(c.messages[i])]]

\* the text JSON.stringify(updatedHistory) produces, kept as the value that
\* JSON.parse reads back from it
Stringify(items) ==
    [kind |-> "json",
     val  |-> [kind |-> "array", items |-> [i \in 1..Len(items) |-> StringifyChat(items[i])]]]

ArrayOf(items) == [kind |-> "array", items |-> items]
ObjectValue    == [kind |-> "object", items |-> <<>>]

Absent      == [kind |-> "absent", val |-> ObjectValue]   \* getItem returns null
EmptyText   == [kind |-> "empty", val |-> ObjectValue]    \* the empty string
GarbageText == [kind |-> "garbage", val |-> ObjectValue]  \* JSON.parse throws
JsonText(v) == [kind |-> "json", val |-> v]

\* --------------------------------------------------- reducer's utilities
createNewChatHistory(id, t1, t2) ==
    [id |-> id, title |-> NewChatTitle, messages |-> <<>>,
     createdAt |-> t1, lastModified |-> t2]

updateChatTitle(messages) ==
    LET users == {i \in 1..Len(messages) : messages[i].type = "user"}
    IN  IF users /= {}
        THEN LET userMessage == messages[CHOOSE i \in users : \A j \in users : i <= j]
             IN  slice(userMessage.content, TitleLimit)
                   \o (IF Len(userMessage.content) > TitleLimit THEN Ellipsis ELSE <<>>)
        ELSE NewChatTitle

\* Array.prototype.find(h => h.id === id): <<>> when nothing matches
find(items, id) ==
    LET hits == {i \in 1..Len(items) : items[i].id = id}
    IN  IF hits = {} THEN <<>>
        ELSE <<items[CHOOSE i \in hits : \A j \in hits : i <= j]>>

\* updatedChatOf with the new message put first
updatedChatOf_Prepend(chat, newMessage, t) ==
    LET updatedMessages == <<newMessage>> \o chat.messages
    IN  [chat EXCEPT !.messages = updatedMessages,
                     !.title = IF Len(chat.messages) = 0
                               THEN updateChatTitle(updatedMessages)
                               ELSE chat.title,
                     !.lastModified = t]

\* ADD_MESSAGE: the conversation after the append
updatedChatOf(chat, newMessage, t) ==
    LET updatedMessages == Append(chat.messages, newMessage)
    IN  [chat EXCEPT !.messages = updatedMessages,
                     !.title = IF Len(chat.messages) = 0
                               THEN updateChatTitle(updatedMessages)
                               ELSE chat.title,
                     !.lastModified = t]

\* updatedHistoryOf without the check before unshift
updatedHistoryOf_AlwaysUnshift(items, updatedChat) ==
    LET mapped == [i \in 1..Len(items) |->
                      IF items[i].id = updatedChat.id THEN updatedChat ELSE items[i]]
    IN  <<updatedChat>> \o mapped

\* ADD_MESSAGE: map over the history, then unshift when no entry matched
updatedHistoryOf(items, updatedChat) ==
    LET mapped == [i \in 1..Len(items) |->
                      IF items[i].id = updatedChat.id THEN updatedChat ELSE items[i]]
    IN  IF find(mapped, updatedChat.id) = <<>>
        THEN <<updatedChat>> \o mapped
        ELSE mapped

\* ------------------------------------------------------- initial states
\* a conversation written to the key by an earlier page load
StoredChat ==
    [id |-> 0, title |-> <<"h", "i">>,
     messages |-> <<[type |-> "user", content |-> <<"h", "i">>,
                     floatData |-> NoFloatData, id |-> 0, timestamp |-> 0]>>,
     createdAt |-> 0, lastModified |-> 0]

\* what the key holds when only this program has written it
WrittenStorage == {Absent, Stringify(<<StoredChat>>)}

\* every kind of value the key can hold
AnyStorage == WrittenStorage \cup {EmptyText, GarbageText, JsonText(ObjectValue)}

\* initialState, before the provider's mount effect has run
InitState ==
    /\ pc = "boot"
    /\ isOpen = FALSE
    /\ currentChat = <<>>
    /\ chatHistory = ArrayOf(<<>>)
    /\ isVisualizationPanelOpen = FALSE
    /\ selectedFloatData = NullFloatData
    /\ isUploading = FALSE
    /\ error = <<>>
    /\ now = 0
    /\ idCount = 0

\* no file has been handed to uploadFile, no query has been sent
NoUpload == file = <<>> /\ uploadResult = <<>> /\ parserCalls = <<>>
NoQuery  == backendReply = <<>> /\ llmReply = <<>> /\ queryResponse = <<>>

\* no component is rendered: the overlay is closed, the dashboard shows nothing
NoChat  == mounted = FALSE /\ isProcessing = FALSE /\ isMapMode = FALSE /\ inflight = {}
NoCharts == [depth |-> <<>>]
NoDash  == /\ effectSeen = NullFloatData /\ floatData = <<>> /\ tableData = <<>>
           /\ chartData = NoCharts /\ extractions = {}
NoTable == /\ sortField = <<>> /\ sortDirection = <<>> /\ searchTerm = <<>>
           /\ filteredAndSortedData = <<>>
NoView  == NoChat /\ NoDash /\ NoTable

Init == InitState /\ storage \in WrittenStorage /\ NoUpload /\ NoQuery /\ NoView

InitAnyStorage == InitState /\ storage \in AnyStorage /\ NoUpload /\ NoQuery /\ NoView

\* ------------------------------------------------------------- actions
\* generateId() gives an identifier not given before: idCount + 1.  One
\* dispatch reads the clock at one instant, and the clock has advanced by
\* the next dispatch that reads it.
\* FloatChatProvider's mount effect: getItem, JSON.parse inside try/catch,
\* then LOAD_HISTORY_FROM_STORAGE with whatever was parsed
Startup ==
    /\ pc = "boot"
    /\ pc' = "ready"
    /\ chatHistory' = IF storage.kind = "json" THEN storage.val ELSE chatHistory
    /\ UNCHANGED <<isOpen, currentChat, isVisualizationPanelOpen, selectedFloatData,
                   isUploading, error, storage, now, idCount>>
    /\ UNCHANGED <<uploadVars, queryVars, viewVars>>

ToggleChat ==
    /\ pc = "ready"
    /\ isOpen' = ~isOpen
    /\ UNCHANGED <<pc, currentChat, chatHistory, isVisualizationPanelOpen,
                   selectedFloatData, isUploading, error, storage, now, idCount>>
    /\ UNCHANGED <<uploadVars, queryVars, viewVars>>

OpenChat ==
    /\ pc = "ready"
    /\ isOpen' = TRUE
    /\ UNCHANGED <<pc, currentChat, chatHistory, isVisualizationPanelOpen,
                   selectedFloatData, isUploading, error, storage, now, idCount>>
    /\ UNCHANGED <<uploadVars, queryVars, viewVars>>

\* CloseChat without error: null
CloseChat_KeepsError ==
    /\ pc = "ready"
    /\ isOpen' = FALSE
    /\ isVisualizationPanelOpen' = FALSE
    /\ UNCHANGED <<pc, currentChat, chatHistory, selectedFloatData, isUploading,
                   error, storage, now, idCount>>
    /\ UNCHANGED <<uploadVars, queryVars, viewVars>>

CloseChat ==
    /\ pc = "ready"
    /\ isOpen' = FALSE
    /\ isVisualizationPanelOpen' = FALSE
    /\ error' = <<>>
    /\ UNCHANGED <<pc, currentChat, chatHistory, selectedFloatData, isUploading,
                   storage, now, idCount>>
    /\ UNCHANGED <<uploadVars, queryVars, viewVars>>

\* CreateNewChat that also puts the new conversation into the history
CreateNewChat_AddsToHistory ==
    /\ pc = "ready"
    /\ idCount < MaxIds
    /\ currentChat' = <<createNewChatHistory(idCount + 1, now, now)>>
    /\ chatHistory' = ArrayOf(<<createNewChatHistory(idCount + 1, now, now)>> \o chatHistory.items)
    /\ now' = now + 1
    /\ idCount' = idCount + 1
    /\ isVisualizationPanelOpen' = FALSE
    /\ selectedFloatData' = NullFloatData
    /\ error' = <<>>
    /\ UNCHANGED <<pc, isOpen, isUploading, storage>>
    /\ UNCHANGED <<uploadVars, queryVars, viewVars>>

CreateNewChat ==
    /\ pc = "ready"
    /\ idCount < MaxIds
    /\ currentChat' = <<createNewChatHistory(idCount + 1, now, now)>>
    /\ now' = now + 1
    /\ idCount' = idCount + 1
    /\ isVisualizationPanelOpen' = FALSE
    /\ selectedFloatData' = NullFloatData
    /\ error' = <<>>
    /\ UNCHANGED <<pc, isOpen, chatHistory, isUploading, storage>>
    /\ UNCHANGED <<uploadVars, queryVars, viewVars>>

\* LoadChat that keeps the active conversation when the id is not found
LoadChat_KeepsCurrent(id) ==
    /\ pc = "ready"
    /\ IF chatHistory.kind = "array"
       THEN /\ currentChat' = IF find(chatHistory.items, id) = <<>>
                              THEN currentChat
                              ELSE find(chatHistory.items, id)
            /\ isVisualizationPanelOpen' = FALSE
            /\ selectedFloatData' = NullFloatData
            /\ error' = <<>>
            /\ pc' = pc
       ELSE /\ pc' = "crashed"
            /\ UNCHANGED <<currentChat, isVisualizationPanelOpen, selectedFloatData, error>>
    /\ UNCHANGED <<isOpen, chatHistory, isUploading, storage, now, idCount>>
    /\ UNCHANGED <<uploadVars, queryVars, viewVars>>

\* chatHistory.find on a value that is not an array throws a TypeError
LoadChat(id) ==
    /\ pc = "ready"
    /\ IF chatHistory.kind = "array"
       THEN /\ currentChat' = find(chatHistory.items, id)
            /\ isVisualizationPanelOpen' = FALSE
            /\ selectedFloatData' = NullFloatData
            /\ error' = <<>>
            /\ pc' = pc
       ELSE /\ pc' = "crashed"
            /\ UNCHANGED <<currentChat, isVisualizationPanelOpen, selectedFloatData, error>>
    /\ UNCHANGED <<isOpen, chatHistory, isUploading, storage, now, idCount>>
    /\ UNCHANGED <<uploadVars, queryVars, viewVars>>

\* ADD_MESSAGE with an active conversation.  chatHistory.map on a value that
\* is not an array throws a TypeError, after the message has been built.
AppendToCurrentChat(payload) ==
    /\ idCount < MaxIds
    /\ idCount' = idCount + 1
    /\ now' = now + 1
    /\ LET newMessage  == [type |-> payload.type, content |-> payload.content,
                           floatData |-> payload.floatData,
                           id |-> idCount + 1, timestamp |-> now]
           updatedChat == updatedChatOf(currentChat[1], newMessage, now)
       IN  IF chatHistory.kind = "array"
           THEN LET updatedHistory == updatedHistoryOf(chatHistory.items, updatedChat)
                IN  /\ storage' = Stringify(updatedHistory)
                    /\ currentChat' = <<updatedChat>>
                    /\ chatHistory' = ArrayOf(updatedHistory)
                    /\ pc' = pc
           ELSE /\ pc' = "crashed"
                /\ UNCHANGED <<storage, currentChat, chatHistory>>
    /\ UNCHANGED <<isOpen, isVisualizationPanelOpen, selectedFloatData,
                   isUploading, error>>
    /\ UNCHANGED <<uploadVars, queryVars>>

\* AddMessage with the history saved before the null check
AddMessage_SavesBeforeCheck(payload) ==
    /\ pc = "ready"
    /\ IF currentChat = <<>>
       THEN /\ storage' = Stringify(chatHistory.items)
            /\ UNCHANGED <<pc, isOpen, currentChat, chatHistory, isVisualizationPanelOpen,
                           selectedFloatData, isUploading, error, now, idCount>>
       ELSE AppendToCurrentChat(payload)
    /\ UNCHANGED <<uploadVars, queryVars, viewVars>>

AddMessage(payload) ==
    /\ pc = "ready"
    /\ IF currentChat = <<>>
       THEN UNCHANGED vars
       ELSE AppendToCurrentChat(payload) /\ UNCHANGED viewVars

ToggleVisualizationPanel ==
    /\ pc = "ready"
    /\ isVisualizationPanelOpen' = ~isVisualizationPanelOpen
    /\ UNCHANGED <<pc, isOpen, currentChat, chatHistory, selectedFloatData,
                   isUploading, error, storage, now, idCount>>
    /\ UNCHANGED <<uploadVars, queryVars, viewVars>>

OpenVisualizationPanel(payload) ==
    /\ pc = "ready"
    /\ isVisualizationPanelOpen' = TRUE
    /\ selectedFloatData' = payload
    /\ UNCHANGED <<pc, isOpen, currentChat, chatHistory, isUploading, error,
                   storage, now, idCount>>
    /\ UNCHANGED <<uploadVars, queryVars, viewVars>>

\* CloseVisualizationPanel that leaves the payload selected
CloseVisualizationPanel_KeepsPayload ==
    /\ pc = "ready"
    /\ isVisualizationPanelOpen' = FALSE
    /\ UNCHANGED <<pc, isOpen, currentChat, chatHistory, selectedFloatData, isUploading,
                   error, storage, now, idCount>>
    /\ UNCHANGED <<uploadVars, queryVars, viewVars>>

CloseVisualizationPanel ==
    /\ pc = "ready"
    /\ isVisualizationPanelOpen' = FALSE
    /\ selectedFloatData' = NullFloatData
    /\ UNCHANGED <<pc, isOpen, currentChat, chatHistory, isUploading, error,
                   storage, now, idCount>>
    /\ UNCHANGED <<uploadVars, queryVars, viewVars>>

SetUploading(payload) ==
    /\ pc = "ready"
    /\ isUploading' = payload
    /\ UNCHANGED <<pc, isOpen, currentChat, chatHistory, isVisualizationPanelOpen,
                   selectedFloatData, error, storage, now, idCount>>
    /\ UNCHANGED <<uploadVars, queryVars, viewVars>>

SetError(payload) ==
    /\ pc = "ready"
    /\ error' = payload
    /\ UNCHANGED <<pc, isOpen, currentChat, chatHistory, isVisualizationPanelOpen,
                   selectedFloatData, isUploading, storage, now, idCount>>
    /\ UNCHANGED <<uploadVars, queryVars, viewVars>>

\* an action type the reducer's switch has no case for: default returns the
\* state object it was given
defaultCase(state) == state

\* dispatch({ type: 'CLEAR_CHAT_HISTORY' }): it falls to the default case, and
\* nothing writes the stored item
ClearChatHistory ==
    /\ pc = "ready"
    /\ chatHistory' = defaultCase(chatHistory)
    /\ currentChat' = defaultCase(currentChat)
    /\ UNCHANGED <<pc, isOpen, isVisualizationPanelOpen, selectedFloatData, isUploading,
                   error, storage, now, idCount>>
    /\ UNCHANGED <<uploadVars, queryVars, viewVars>>

ChatIds == 0..MaxIds

Next ==
    \/ Startup
    \/ ToggleChat
    \/ OpenChat
    \/ CloseChat
    \/ CreateNewChat
    \/ \E id \in ChatIds : LoadChat(id)
    \/ \E payload \in Payloads : AddMessage(payload)
    \/ ToggleVisualizationPanel
    \/ \E payload \in FloatDatas : OpenVisualizationPanel(payload)
    \/ CloseVisualizationPanel
    \/ \E payload \in BOOLEAN : SetUploading(payload)
    \/ \E payload \in ErrorTexts : SetError(payload)
    \/ ClearChatHistory

Spec == Init /\ [][Next]_vars

SpecAnyStorage == InitAnyStorage /\ [][Next]_vars

\* ================================================== file ingestion
\* uploadFile and its parsers (src/src/demo/FloatChatDemo.ts)
MAX_FILE_SIZE == 50 * 1024 * 1024

ALLOWED_TYPES == {"text/csv", "application/json", "application/x-netcdf",
                  "application/octet-stream", "text/plain"}

ProfileLimit == 1000    \* profiles.slice(0, 1000)

MaxRows == 2            \* data rows of the small CSV inputs

\* ------------------------------------------------------- file names
UpperCase == <<"A", "B", "C", "D", "E", "F", "G", "H", "I", "J", "K", "L", "M",
               "N", "O", "P", "Q", "R", "S", "T", "U", "V", "W", "X", "Y", "Z">>
LowerCase == <<"a", "b", "c", "d", "e", "f", "g", "h", "i", "j", "k", "l", "m",
               "n", "o", "p", "q", "r", "s", "t", "u", "v", "w", "x", "y", "z">>

LowerOf(ch) ==
    IF \E i \in 1..26 : UpperCase[i] = ch
    THEN LowerCase[CHOOSE i \in 1..26 : UpperCase[i] = ch]
    ELSE ch

\* String.prototype.toLowerCase and String.prototype.endsWith
toLowerCase(s) == [i \in 1..Len(s) |-> LowerOf(s[i])]

endsWith(s, suffix) ==
    /\ Len(s) >= Len(suffix)
    /\ SubSeq(s, Len(s) - Len(suffix) + 1, Len(s)) = suffix

DotNc   == <<".", "n", "c">>
DotCsv  == <<".", "c", "s", "v">>
DotJson == <<".", "j", "s", "o", "n">>

\* --------------------------------------------------------- profiles
\* Math.random() is not followed: base + Math.random() * span is kept as
\* "some number in [base, base + span)"
Random(base) == [t |-> "rand", n |-> base]
NowText      == [t |-> "now", n |-> 0]      \* new Date().toISOString()

\* a || b || ... || default
RECURSIVE FirstTruthy(_, _)
FirstTruthy(values, default) ==
    IF values = <<>> THEN default
    ELSE IF Truthy(Head(values)) THEN Head(values)
    ELSE FirstTruthy(Tail(values), default)

\* row[name] of a row object Papa.parse built under the header: the
\* transformed cell, undefined when the header has no such column or the
\* row is too short to reach it
Cell(header, row, name) ==
    LET cols == {i \in 1..Len(header) : header[i] = name /\ i <= Len(row)}
    IN  IF cols = {} THEN Undefined
        ELSE transform(row[CHOOSE i \in cols : \A j \in cols : j <= i])

Cells(header, row, names) == [k \in 1..Len(names) |-> Cell(header, row, names[k])]

\* typeof v === 'number' ? v : parseFloat(v) || fallback, for a value the
\* || chain produced: a text left by transform has no number in front
NumberOr(v, fallback) == IF v.t \in {"num", "inf", "rand"} THEN v ELSE Num(fallback)

\* one element of a profiles array: t = "null" is a null element
Profile(depth, temperature, salinity, timestamp, latitude, longitude) ==
    [t |-> "obj", depth |-> depth, temperature |-> temperature, salinity |-> salinity,
     timestamp |-> timestamp, latitude |-> latitude, longitude |-> longitude]

NullProfile == [Profile(Undefined, Undefined, Undefined, Undefined, Undefined, Undefined)
                   EXCEPT !.t = "null"]

\* --------------------------------------------------- parseCSVToFloatData
\* the property names each || chain of the row mapping reads, in order
DepthNames ==
    <<<<"d", "e", "p", "t", "h">>,
      <<"D", "E", "P", "T", "H">>,
      <<"D", "e", "p", "t", "h">>,
      <<"p", "r", "e", "s">>,
      <<"P", "R", "E", "S">>>>

TemperatureNames ==
    <<<<"t", "e", "m", "p", "e", "r", "a", "t", "u", "r", "e">>,
      <<"T", "E", "M", "P", "E", "R", "A", "T", "U", "R", "E">>,
      <<"t", "e", "m", "p">>,
      <<"T", "E", "M", "P">>,
      <<"T", "e", "m", "p", "e", "r", "a", "t", "u", "r", "e">>>>

SalinityNames ==
    <<<<"s", "a", "l", "i", "n", "i", "t", "y">>,
      <<"S", "A", "L", "I", "N", "I", "T", "Y">>,
      <<"s", "a", "l">>,
      <<"S", "A", "L">>,
      <<"S", "a", "l", "i", "n", "i", "t", "y">>>>

TimestampNames ==
    <<<<"t", "i", "m", "e", "s", "t", "a", "m", "p">>,
      <<"T", "I", "M", "E", "S", "T", "A", "M", "P">>,
      <<"t", "i", "m", "e">>,
      <<"T", "I", "M", "E">>>>

LatitudeNames ==
    <<<<"l", "a", "t", "i", "t", "u", "d", "e">>,
      <<"L", "A", "T", "I", "T", "U", "D", "E">>,
      <<"l", "a", "t">>,
      <<"L", "A", "T">>>>

LongitudeNames ==
    <<<<"l", "o", "n", "g", "i", "t", "u", "d", "e">>,
      <<"L", "O", "N", "G", "I", "T", "U", "D", "E">>,
      <<"l", "o", "n">>,
      <<"L", "O", "N">>>>

\* the profile built from the row object at position index (from 0)
csvProfile(header, row, index) ==
    LET depth       == FirstTruthy(Cells(header, row, DepthNames), Num(index * 10))
        temperature == FirstTruthy(Cells(header, row, TemperatureNames), Random(15))
        salinity    == FirstTruthy(Cells(header, row, SalinityNames), Random(34))
        timestamp   == FirstTruthy(Cells(header, row, TimestampNames), NowText)
        latitude    == FirstTruthy(Cells(header, row, LatitudeNames), Random(35))
        longitude   == FirstTruthy(Cells(header, row, LongitudeNames), Random(-120))
    IN  Profile(NumberOr(depth, 0),
                NumberOr(temperature, 15),
                NumberOr(salinity, 35),
                IF timestamp.t = "str" THEN timestamp ELSE NowText,
                NumberOr(latitude, 35),
                NumberOr(longitude, -120))

\* FloatData values are kept as their profiles; id, name and metadata are
\* not followed
FloatDataWith(profiles) == [profiles |-> profiles]

\* Papa.parse returns its errors in the result and does not throw
parseCSVToFloatData(csv) ==
    LET rows     == csv.rows
        profiles == [i \in 1..Len(rows) |-> csvProfile(csv.header, rows[i], i - 1)]
    IN  FloatDataWith(slice(profiles, ProfileLimit))

\* -------------------------------------------------- parseJSONToFloatData
\* the outcome of a call that may throw: threw = "" when it returned
Returned(v) == [threw |-> "", val |-> v]
Threw(e)    == [threw |-> e, val |-> FloatDataWith(<<>>)]

\* the profile built from element item of a bare array; the elements used
\* here carry none of the keys pres, temp, sal, time, lat, lon
jsonProfile(item, index) ==
    Profile(FirstTruthy(<<item.depth>>, Num(index * 10)),
            FirstTruthy(<<item.temperature>>, Random(15)),
            FirstTruthy(<<item.salinity>>, Random(34)),
            FirstTruthy(<<item.timestamp>>, NowText),
            FirstTruthy(<<item.latitude>>, Random(35)),
            FirstTruthy(<<item.longitude>>, Random(-120)))

\* json is what JSON.parse makes of the text: kind "syntax" when it throws,
\* else the kind of the value, whether it has a truthy id, the kind of its
\* profiles property, and its elements (of the array itself, or of profiles)
parseJSONToFloatData(json) ==
    CASE json.kind = "syntax" -> Threw("SyntaxError")
      [] json.kind = "null"   -> Threw("TypeError")     \* data.id of null
      [] json.kind = "object" /\ json.hasId /\ json.profilesKind = "array" ->
            Returned(FloatDataWith(json.items))          \* return data as FloatData
      [] json.kind = "array" ->
            IF \E i \in 1..Len(json.items) : json.items[i].t = "null"
            THEN Threw("TypeError")                      \* item.depth of null
            ELSE Returned(FloatDataWith(slice(
                     [i \in 1..Len(json.items) |-> jsonProfile(json.items[i], i - 1)],
                     ProfileLimit)))
      [] json.kind = "object" /\ json.profilesKind = "array" ->
            Returned(FloatDataWith(slice(json.items, ProfileLimit)))
      [] OTHER -> Returned(FloatDataWith(<<>>))

\* generatePreview: p.depth of a null element throws
generatePreview(data) ==
    IF \E i \in 1..Len(data.profiles) : data.profiles[i].t = "null"
    THEN [threw |-> "TypeError", profileCount |-> 0]
    ELSE [threw |-> "", profileCount |-> Len(data.profiles)]

\* ------------------------------------------------------------ uploadFile
\* FileUploadResult in the promise uploadFile returned: data, preview,
\* error and fileInfo are <<>> when the property is not there
fileInfoOf(f) == [name |-> f.name, size |-> f.size, type |-> f.type]

Pending == [settled |-> "pending", success |-> FALSE, data |-> <<>>, preview |-> <<>>,
            error |-> <<>>, fileInfo |-> <<>>]

\* error texts are kept as the message's kind and the text put into it
Failure(f, kind, detail) ==
    [settled |-> "resolved", success |-> FALSE, data |-> <<>>, preview |-> <<>>,
     error |-> <<[kind |-> kind, detail |-> detail]>>, fileInfo |-> <<fileInfoOf(f)>>]

Success(f, data, preview) ==
    [settled |-> "resolved", success |-> TRUE, data |-> <<data>>, preview |-> <<preview>>,
     error |-> <<>>, fileInfo |-> <<fileInfoOf(f)>>]

Rejected(e) ==
    [settled |-> "rejected", success |-> FALSE, data |-> <<>>, preview |-> <<>>,
     error |-> <<[kind |-> "uncaught", detail |-> e]>>, fileInfo |-> <<>>]

\* file.size >= MAX_FILE_SIZE
ExceedsMaxSize_AtLeast(f) == f.size >= MAX_FILE_SIZE

\* file.size > MAX_FILE_SIZE
ExceedsMaxSize(f) == f.size > MAX_FILE_SIZE

\* file.type && !ALLOWED_TYPES.includes(file.type) && !name.endsWith('.nc')
UnsupportedType(f) ==
    /\ f.type /= ""
    /\ f.type \notin ALLOWED_TYPES
    /\ ~endsWith(toLowerCase(f.name), DotNc)

\* the parser branch of the try block: what it ended with (data, the
\* NetCDF early return, or a throw) and the parsers it called
Parsed(out, calls) ==
    [end |-> IF out.threw = "" THEN "data" ELSE "threw",
     data |-> out.val, detail |-> out.threw, calls |-> calls]

parseBranch(f) ==
    LET lower == toLowerCase(f.name)
        text  == f.content
    IN  IF endsWith(lower, DotCsv) \/ f.type = "text/csv"
        THEN Parsed(Returned(parseCSVToFloatData(text.csv)), <<"csv">>)
        ELSE IF endsWith(lower, DotJson) \/ f.type = "application/json"
        THEN Parsed(parseJSONToFloatData(text.json), <<"json">>)
        ELSE IF endsWith(lower, DotNc)
        THEN [end |-> "netcdf", data |-> FloatDataWith(<<>>), detail |-> "", calls |-> <<>>]
        ELSE \* try CSV, and JSON when that throws
             LET csv == Returned(parseCSVToFloatData(text.csv))
             IN  IF csv.threw = ""
                 THEN Parsed(csv, <<"csv">>)
                 ELSE Parsed(parseJSONToFloatData(text.json), <<"csv", "json">>)

\* the try block: file.text(), the parser branch, generatePreview
tryBlock(f) ==
    IF ~f.content.readable
    THEN [end |-> "threw", data |-> FloatDataWith(<<>>), detail |-> "NotReadableError",
          calls |-> <<>>]
    ELSE LET branch == parseBranch(f)
         IN  IF branch.end = "data" /\ generatePreview(branch.data).threw /= ""
             THEN [branch EXCEPT !.end = "threw",
                                 !.detail = generatePreview(branch.data).threw]
             ELSE branch

\* uploadFile whose try block has no catch
uploadFile_NoCatch(f) ==
    IF ExceedsMaxSize(f) THEN Failure(f, "size", "")
    ELSE IF UnsupportedType(f) THEN Failure(f, "type", f.type)
    ELSE LET body == tryBlock(f)
         IN  CASE body.end = "data"   -> Success(f, body.data, generatePreview(body.data))
               [] body.end = "netcdf" -> Failure(f, "netcdf", "")
               [] OTHER               -> Rejected(body.detail)

uploadFile(f) ==
    IF ExceedsMaxSize(f) THEN Failure(f, "size", "")
    ELSE IF UnsupportedType(f) THEN Failure(f, "type", f.type)
    ELSE LET body == tryBlock(f)
         IN  CASE body.end = "data"   -> Success(f, body.data, generatePreview(body.data))
               [] body.end = "netcdf" -> Failure(f, "netcdf", "")
               [] OTHER               -> Failure(f, "parse", body.detail)

\* the parsers one call of uploadFile runs, in call order
parsersCalled(f) ==
    IF ExceedsMaxSize(f) \/ UnsupportedType(f) \/ ~f.content.readable
    THEN <<>>
    ELSE parseBranch(f).calls

\* ----------------------------------------------------- uploaded files
FileNames == {<<"a", ".", "c", "s", "v">>, <<"A", ".", "C", "S", "V">>, <<"a", ".", "j", "s", "o", "n">>, <<"a", ".", "n", "c">>, <<"a", ".", "N", "C">>, <<"a", ".", "t", "x", "t">>, <<"c", "s", "v">>}

FileTypes == {"", "text/csv", "application/json", "application/x-netcdf",
              "text/plain", "application/vnd.ms-excel"}

FileSizes == {1024, MAX_FILE_SIZE - 1, MAX_FILE_SIZE, MAX_FILE_SIZE + 1}

\* what JSON.parse makes of a text
JsonSyntaxError == [kind |-> "syntax", hasId |-> FALSE, profilesKind |-> "absent", items |-> <<>>]
JsonNull        == [JsonSyntaxError EXCEPT !.kind = "null"]
JsonNumber      == [JsonSyntaxError EXCEPT !.kind = "number"]
JsonArray(items) == [JsonSyntaxError EXCEPT !.kind = "array", !.items = items]
JsonObject(hasId, profilesKind, items) ==
    [kind |-> "object", hasId |-> hasId, profilesKind |-> profilesKind, items |-> items]

\* an element {"depth": d} of a JSON array
JsonItem(d) == Profile(Num(d), Undefined, Undefined, Undefined, Undefined, Undefined)
JsonItems(n) == [i \in 1..n |-> JsonItem(i)]

\* a text is kept as what each reader makes of it: file.text() (readable),
\* Papa.parse with header: true and skipEmptyLines (csv: the header fields
\* and the data rows' cells), and JSON.parse (json)
Unreadable == [readable |-> FALSE, csv |-> [header |-> <<>>, rows |-> <<>>],
               json |-> JsonSyntaxError]

\* a CSV text is not JSON
CsvText(header, rows) ==
    [readable |-> TRUE, csv |-> [header |-> header, rows |-> rows], json |-> JsonSyntaxError]

\* a JSON text on one line is a CSV header line without data rows
JsonTextFile(json) ==
    [readable |-> TRUE, csv |-> [header |-> <<<<"{">>>>, rows |-> <<>>], json |-> json]

\* sequences of 1..n elements of S
SeqsUpTo(S, n) == UNION {[1..k -> S] : k \in 1..n}

\* one-column texts: a recognised or unrecognised spelling over number and
\* text cells (an empty cell would be an empty line, which is skipped)
OneColumnNames == {<<"d", "e", "p", "t", "h">>,
                   <<"D", "e", "p", "t", "h">>,
                   <<"P", "r", "e", "s">>,
                   <<"P", "R", "E", "S">>,
                   <<"t", "e", "m", "p", "e", "r", "a", "t", "u", "r", "e">>,
                   <<"T", "e", "m", "p">>,
                   <<"L", "a", "t", "i", "t", "u", "d", "e">>,
                   <<"l", "o", "n">>,
                   <<"t", "i", "m", "e">>,
                   <<"T", "i", "m", "e">>}

OneColumnCsv ==
    {CsvText(<<name>>, rows) :
        name \in OneColumnNames,
        rows \in SeqsUpTo({<<"0">>, <<"10">>, <<"abc">>}, MaxRows)}

\* two-column texts: zero and missing values at every row position
TwoColumnCsv ==
    {CsvText(<<<<"d", "e", "p", "t", "h">>, <<"t", "e", "m", "p", "e", "r", "a", "t", "u", "r", "e">>>>, rows) :
        rows \in SeqsUpTo({<<"0", "10">>, <<"10", "0">>, <<"10">>,
                           <<"", "10">>, <<"10", "">>}, MaxRows)}

\* texts with as many and one more entry than the profile limit; without a
\* depth column the depth of a row is its position times 10
LongTexts ==
    {CsvText(<<<<"x">>>>, Rep(<<"abc">>, n)) : n \in {ProfileLimit, ProfileLimit + 1}}
    \cup {JsonTextFile(JsonArray(JsonItems(ProfileLimit + 1)))}
    \cup {JsonTextFile(JsonObject(hasId, "array", JsonItems(n))) :
             hasId \in BOOLEAN, n \in {ProfileLimit, ProfileLimit + 1}}

JsonTexts ==
    {JsonTextFile(j) :
        j \in {JsonSyntaxError, JsonNull, JsonNumber,
               JsonArray(<<>>), JsonArray(<<JsonItem(0), JsonItem(10)>>),
               JsonArray(<<NullProfile>>),
               JsonObject(TRUE, "absent", <<>>), JsonObject(FALSE, "other", <<>>),
               JsonObject(TRUE, "array", <<JsonItem(10)>>),
               JsonObject(TRUE, "array", <<NullProfile>>),
               JsonObject(FALSE, "array", <<JsonItem(10)>>)}}

FileContents == {Unreadable} \cup OneColumnCsv \cup TwoColumnCsv \cup LongTexts \cup JsonTexts

Files ==
    {[name |-> n, type |-> t, size |-> z, content |-> c] :
        n \in FileNames, t \in FileTypes, z \in FileSizes, c \in FileContents}

\* ------------------------------------------- the file-ingestion call
InitUpload ==
    /\ InitState /\ storage = Absent
    /\ file \in Files
    /\ uploadResult = Pending
    /\ parserCalls = <<>>
    /\ NoQuery /\ NoView

\* one call of uploadFile(file), up to the settling of its promise
UploadFile ==
    /\ uploadResult.settled = "pending"
    /\ uploadResult' = uploadFile(file)
    /\ parserCalls' = parsersCalled(file)
    /\ UNCHANGED <<pc, isOpen, currentChat, chatHistory, isVisualizationPanelOpen,
                   selectedFloatData, isUploading, error, storage, now, idCount,
                   file, queryVars, viewVars>>

NextUpload == UploadFile

SpecUpload == InitUpload /\ [][NextUpload]_vars

\* ------------------------------------------------- vocabulary of the claims
HistoryItems   == chatHistory.items
IdsOf(items)   == {items[i].id : i \in 1..Len(items)}
NoDuplicateIds(items) ==
    \A i, j \in 1..Len(items) : items[i].id = items[j].id => i = j

\* every conversation the store holds: the history entries and the active one
Conversations ==
    {HistoryItems[i] : i \in 1..Len(HistoryItems)} \cup {currentChat[i] : i \in 1..Len(currentChat)}

HasUserMessage(c) == \E i \in 1..Len(c.messages) : c.messages[i].type = "user"

FirstUserContent(c) ==
    c.messages[CHOOSE i \in 1..Len(c.messages) :
                  /\ c.messages[i].type = "user"
                  /\ \A j \in 1..(i - 1) : c.messages[j].type /= "user"].content

\* a text cut to its first 50 characters, with '...' iff it was longer
Truncated(text) ==
    IF Len(text) > 50 THEN SubSeq(text, 1, 50) \o <<".", ".", ".">> ELSE text

\* a step that is an ADD_MESSAGE dispatched while a conversation is active
AppendStep == currentChat /= <<>> /\ \E payload \in Payloads : AddMessage(payload)

\* what a page reload makes of the stored value
Reloaded(item) == IF item.kind = "json" THEN item.val ELSE ArrayOf(<<>>)

\* C1: whenever a conversation holds a user message, its title is the content
\* of its first user message cut to 50 characters, with '...' appended iff
\* that content is longer than 50 characters.
C1_TitleIsFirstUserMessage ==
    \A c \in Conversations : HasUserMessage(c) => c.title = Truncated(FirstUserContent(c))

\* C2: an ADD_MESSAGE with an active conversation puts exactly one message,
\* the dispatched one, at the end of that conversation's messages and keeps the
\* earlier ones, and every other conversation stays as it was; a step of any
\* other action leaves the messages of every conversation as they were.
C2_AppendOnly ==
    [][ /\ AppendStep =>
            /\ currentChat' /= <<>>
            /\ currentChat'[1].id = currentChat[1].id
            /\ Len(currentChat'[1].messages) = Len(currentChat[1].messages) + 1
            /\ SubSeq(currentChat'[1].messages, 1, Len(currentChat[1].messages))
                  = currentChat[1].messages
            /\ \E payload \in Payloads :
                  LET last == currentChat'[1].messages[Len(currentChat'[1].messages)]
                  IN  /\ last.type = payload.type
                      /\ last.content = payload.content
                      /\ last.floatData = payload.floatData
                      /\ last.id = idCount'
            /\ \A c \in Conversations' :
                  c.id /= currentChat[1].id => \E d \in Conversations : d = c
        /\ ~AppendStep =>
            \A c \in Conversations' : \A d \in Conversations :
                d.id = c.id => d.messages = c.messages
      ]_vars

C2_Witness ==
    /\ currentChat /= <<>>
    /\ Len(currentChat[1].messages) = 2
    /\ currentChat[1].messages[1].type = "assistant"
    /\ currentChat[1].messages[2].type = "user"

\* C3: once the startup load is done, reloading the stored value gives exactly
\* the in-memory history list.
C3_StoredEqualsHistory == pc = "ready" => Reloaded(storage) = chatHistory

\* C4: ADD_MESSAGE puts the updated active conversation at the front of the
\* history when its id is not there, else in place of the entry with its id;
\* all other entries keep their contents and order, and no two entries of the
\* history ever share an id.
C4_Upsert ==
    [][ /\ NoDuplicateIds(HistoryItems')
        /\ AppendStep =>
              LET id == currentChat[1].id
              IN  IF id \notin IdsOf(HistoryItems)
                  THEN HistoryItems' = <<currentChat'[1]>> \o HistoryItems
                  ELSE /\ Len(HistoryItems') = Len(HistoryItems)
                       /\ \A i \in 1..Len(HistoryItems) :
                             HistoryItems'[i] = IF HistoryItems[i].id = id
                                                THEN currentChat'[1]
                                                ELSE HistoryItems[i]
      ]_vars

C4_Witness ==
    /\ Len(HistoryItems) = 2
    /\ currentChat = <<HistoryItems[2]>>
    /\ Len(HistoryItems[2].messages) = 2
    /\ HistoryItems[1].lastModified < HistoryItems[2].lastModified

\* C5: an ADD_MESSAGE dispatched while no conversation is active changes
\* nothing: neither the store state nor the stored value.
C5_NoActiveChatNoOp ==
    [][ (currentChat = <<>> /\ \E payload \in Payloads : AddMessage(payload))
            => UNCHANGED vars ]_vars

C5_Witness ==
    /\ pc = "ready"
    /\ currentChat = <<>>
    /\ Len(HistoryItems) = 2
    /\ storage.kind = "json"
    /\ idCount < MaxIds

\* C6: CREATE_NEW_CHAT makes a conversation without messages the active one
\* and leaves the history and the stored value alone; a conversation enters
\* the history of the running store only with its first message, and no
\* history entry is ever without messages.
C6_NewChatNotInHistory ==
    [][ /\ CreateNewChat =>
              /\ currentChat' /= <<>>
              /\ currentChat'[1].messages = <<>>
              /\ chatHistory' = chatHistory
              /\ storage' = storage
        /\ pc = "ready" =>
              \A i \in 1..Len(HistoryItems') :
                  HistoryItems'[i].id \notin IdsOf(HistoryItems) =>
                      /\ AppendStep
                      /\ HistoryItems'[i] = currentChat'[1]
                      /\ Len(HistoryItems'[i].messages) = 1
        /\ \A i \in 1..Len(HistoryItems') : HistoryItems'[i].messages /= <<>>
      ]_vars

C6_Witness ==
    /\ currentChat /= <<>>
    /\ currentChat[1].messages = <<>>
    /\ Len(HistoryItems) = 2
    /\ currentChat[1].id \notin IdsOf(HistoryItems)

\* C7: LOAD_CHAT makes the history entry with the given id the active
\* conversation, or makes no conversation active when the history has no such
\* entry; it raises nothing and leaves the history as it was.
C7_LoadChat ==
    [][ \A id \in ChatIds :
          LoadChat(id) =>
              /\ pc' = "ready"
              /\ chatHistory' = chatHistory
              /\ IF id \in IdsOf(HistoryItems)
                 THEN /\ currentChat' /= <<>>
                      /\ currentChat'[1].id = id
                      /\ \E i \in 1..Len(HistoryItems) : HistoryItems[i] = currentChat'[1]
                 ELSE currentChat' = <<>>
      ]_vars

C7_Witness ==
    /\ pc = "ready"
    /\ currentChat = <<>>
    /\ idCount = MaxIds
    /\ Len(HistoryItems) = 2

\* C8: CLOSE_CHAT closes the overlay and the visualization panel and clears
\* the error; the active conversation, the history, the uploading flag and the
\* stored value stay as they were.
C8_CloseChat ==
    [][ CloseChat =>
          /\ isOpen' = FALSE
          /\ isVisualizationPanelOpen' = FALSE
          /\ error' = <<>>
          /\ UNCHANGED <<currentChat, chatHistory, isUploading, storage>>
      ]_vars

C8_Witness ==
    /\ ~isOpen
    /\ ~isVisualizationPanelOpen
    /\ error = <<>>
    /\ selectedFloatData.t = "obj"
    /\ isUploading
    /\ currentChat /= <<>>
    /\ Len(HistoryItems) > 0

\* C9: OPEN_VISUALIZATION_PANEL opens the panel with exactly the dispatched
\* FloatData selected, whatever was selected before; CLOSE_VISUALIZATION_PANEL
\* closes the panel and leaves nothing selected.
C9_VisualizationPanel ==
    [][ /\ \A payload \in FloatDatas :
              OpenVisualizationPanel(payload) =>
                  isVisualizationPanelOpen' = TRUE /\ selectedFloatData' = payload
        /\ CloseVisualizationPanel =>
              isVisualizationPanelOpen' = FALSE /\ selectedFloatData' = NullFloatData
      ]_vars

C9_Witness ==
    /\ isVisualizationPanelOpen
    /\ selectedFloatData = FloatDataOf(Infinity)
    /\ isOpen

\* the stored value holds a list the startup load can use
Usable(item) == item.kind = "json" /\ item.val.kind = "array"

\* C10: whatever the key held at startup, the load raises nothing and leaves a
\* history that is a list, the empty list when the stored value was not usable.
\* (Up to the first generateId() call the key still holds its startup value.)
C10_StartupHistoryWellFormed ==
    (pc /= "boot" /\ idCount = 0) =>
        /\ chatHistory.kind = "array"
        /\ ~Usable(storage) => chatHistory = ArrayOf(<<>>)

\* =================================================== remote query
\* ApiService.semanticQuery (src/src/lib/api.ts) and
\* OpenAIService.processOceanographicData (src/src/lib/openai.ts)
API_BASE_URL == "http://localhost:8000"

MaxResults == 2         \* results in one backend response

\* ---------------------------------------------- numbers in documents
DigitChars == <<"0", "1", "2", "3", "4", "5", "6", "7", "8", "9">>

IsDigit(ch)    == \E i \in 1..10 : DigitChars[i] = ch
DigitValue(ch) == (CHOOSE i \in 1..10 : DigitChars[i] = ch) - 1

\* the number k / 10: the numbers written in the documents of the model
\* have at most one fraction digit
Dec(k) == [t |-> "dec", n |-> k]

\* how many digits text starts with
RECURSIVE LeadingDigits(_)
LeadingDigits(text) ==
    IF text /= <<>> /\ IsDigit(Head(text)) THEN 1 + LeadingDigits(Tail(text)) ELSE 0

\* the number a run of digits writes
RECURSIVE DigitsValue(_)
DigitsValue(digits) ==
    IF digits = <<>> THEN 0
    ELSE 10 * DigitsValue(SubSeq(digits, 1, Len(digits) - 1)) + DigitValue(digits[Len(digits)])

\* parseFloat on a text of digits, dots and minus signs: an optional sign,
\* digits, an optional dot with digits, and whatever follows is ignored;
\* NaN when no digit was read
parseFloatChars(text) ==
    LET negative == text /= <<>> /\ Head(text) = "-"
        body     == IF negative THEN Tail(text) ELSE text
        k        == LeadingDigits(body)
        rest     == SubSeq(body, k + 1, Len(body))
        fraction == IF rest /= <<>> /\ Head(rest) = "."
                    THEN SubSeq(Tail(rest), 1, LeadingDigits(Tail(rest)))
                    ELSE <<>>
        tenths   == 10 * DigitsValue(SubSeq(body, 1, k))
                       + (IF fraction = <<>> THEN 0 ELSE DigitValue(Head(fraction)))
    IN  IF k = 0 /\ fraction = <<>> THEN NaN
        ELSE Dec(IF negative THEN 0 - tenths ELSE tenths)

\* the capture group ([\d.]+) between two literal texts
MatchesDigitsAndDots(text) ==
    /\ text /= <<>>
    /\ \A i \in 1..Len(text) : IsDigit(text[i]) \/ text[i] = "."

\* ------------------------------------------- extractDataFromDocument
\* a document is kept as its three sentences "<Quantity> ranged from <min>
\* <unit> to <max> <unit> (mean <mean> <unit>)", each there or not, with
\* the three numbers as written
Sentence(min, max, mean) == [present |-> TRUE, min |-> min, max |-> max, mean |-> mean]
NoSentence == [present |-> FALSE, min |-> <<>>, max |-> <<>>, mean |-> <<>>]

\* document.match(/... ranged from ([\d.]+)u to ([\d.]+)u \(mean ([\d.]+)u\)/)
match(sentence) ==
    /\ sentence.present
    /\ MatchesDigitsAndDots(sentence.min)
    /\ MatchesDigitsAndDots(sentence.max)
    /\ MatchesDigitsAndDots(sentence.mean)

extractDataFromDocument(document) ==
    [temperature |-> IF match(document.temperature)
                     THEN parseFloatChars(document.temperature.mean) ELSE Undefined,
     salinity    |-> IF match(document.salinity)
                     THEN parseFloatChars(document.salinity.mean) ELSE Undefined,
     depth       |-> IF match(document.pressure)
                     THEN parseFloatChars(document.pressure.mean) ELSE Undefined]

\* float_id.replace(/b'|'/g, ''): from left to right, every b' and every
\* remaining ' is taken out
RECURSIVE cleanFloatId(_)
cleanFloatId(id) ==
    IF id = <<>> THEN <<>>
    ELSE IF Len(id) >= 2 /\ id[1] = "b" /\ id[2] = "'"
    THEN cleanFloatId(SubSeq(id, 3, Len(id)))
    ELSE IF id[1] = "'" THEN cleanFloatId(Tail(id))
    ELSE <<id[1]>> \o cleanFloatId(Tail(id))

\* the Float built from one result
floatOf(result) ==
    LET extractedData == extractDataFromDocument(result.document)
        metadata      == result.metadata[1]
    IN  [id |-> cleanFloatId(metadata.float_id),
         lat |-> metadata.lat, lon |-> metadata.lon, time |-> metadata.date,
         temperature |-> extractedData.temperature,
         salinity |-> extractedData.salinity,
         depth |-> extractedData.depth]

\* ------------------------------------------ processOceanographicData
\* vectorResults.reduce((sum, r) => sum + (r.metadata?.profiles || 0), 0)
\* that counts one profile per result
RECURSIVE totalProfiles_OnePerResult(_)
totalProfiles_OnePerResult(results) ==
    IF results = <<>> THEN 0
    ELSE 1 + totalProfiles_OnePerResult(Tail(results))

\* vectorResults.reduce((sum, r) => sum + (r.metadata?.profiles || 0), 0)
RECURSIVE totalProfiles(_)
totalProfiles(results) ==
    IF results = <<>> THEN 0
    ELSE (IF Head(results).metadata = <<>> THEN 0 ELSE Head(results).metadata[1].profiles)
            + totalProfiles(Tail(results))

\* a summary text is kept as where it came from and the numbers put into it
\* getFallbackProcessing: `Found ${floatCount} ARGO floats with
\* ${totalProfiles} profiles matching your query ...`
getFallbackProcessing(results) ==
    [summary |-> [source |-> "fallback", floatCount |-> Len(results),
                  totalProfiles |-> totalProfiles(results)]]

\* parseAIResponse: the summary is the model's text
parseAIResponse(llm) ==
    [summary |-> [source |-> "llm", floatCount |-> 0, totalProfiles |-> 0]]

\* llm is what the call to the chat-completions endpoint yields: no key
\* configured (no call), a rejected fetch, a non-2xx status, a body without
\* choices, a first choice without content, or content.  Every throw inside
\* the try block ends in getFallbackProcessing.
processOceanographicData(llm, results) ==
    IF llm = "nokey" THEN getFallbackProcessing(results)
    ELSE IF llm \in {"network", "http", "nochoices", "nocontent"}
    THEN getFallbackProcessing(results)
    ELSE parseAIResponse(llm)

\* ------------------------------------------------------ semanticQuery
\* an Error is kept as its message: a text and the status put into it
ErrorOf(text, status) == [text |-> text, status |-> status]

\* a message is kept as its fixed text, the URL and the count put into it
MessageOf(text, url, count) == [text |-> text, url |-> url, count |-> count]

PendingResponse ==
    [settled |-> "pending", success |-> FALSE, message |-> MessageOf("", "", 0),
     error |-> <<>>, data |-> <<>>]

\* the catch block
Caught(e) ==
    [settled |-> "resolved", success |-> FALSE,
     message |-> MessageOf("Unable to connect to backend at ", API_BASE_URL, 0),
     error |-> <<e>>, data |-> <<>>]

\* the else branch
InvalidResponse(status) ==
    [settled |-> "resolved", success |-> FALSE,
     message |-> MessageOf(IF status = "" THEN "Unknown response from backend" ELSE status,
                           "", 0),
     error |-> <<ErrorOf("Invalid response format", 0)>>, data |-> <<>>]

Found(results, floats, aiAnalysis) ==
    [settled |-> "resolved", success |-> TRUE,
     message |-> MessageOf("Found results", "", Len(results)),
     error |-> <<>>,
     data |-> <<[floats |-> floats, summary |-> aiAnalysis.summary]>>]

Uncaught(e) ==
    [settled |-> "rejected", success |-> FALSE, message |-> MessageOf("", "", 0),
     error |-> <<e>>, data |-> <<>>]

\* what the try block ends with: "return" with the response, or "throw"
\* with the error.  backend is what the fetch yields: a rejection
\* ("network"), a response that is not ok ("http"), a body response.json()
\* rejects ("unparsable"), or a body ("json") that is null or an object with
\* status and results; results are absent, a list, or another truthy value
queryBody(backend, llm) ==
    CASE backend.kind = "network" ->
            [end |-> "throw", error |-> backend.error, response |-> PendingResponse]
      [] backend.kind = "http" ->
            [end |-> "throw",
             error |-> ErrorOf("API request failed with status ", backend.httpStatus),
             response |-> PendingResponse]
      [] backend.kind = "unparsable" ->
            [end |-> "throw", error |-> ErrorOf("SyntaxError", 0), response |-> PendingResponse]
      [] backend.kind = "json" /\ backend.body.kind = "null" ->
            [end |-> "throw", error |-> ErrorOf("TypeError", 0), response |-> PendingResponse]
      [] backend.kind = "json" /\ backend.body.status = "success"
                               /\ backend.body.results.kind /= "absent" ->
            LET results == backend.body.results.items
            IN  IF \/ backend.body.results.kind /= "list"
                   \/ \E i \in 1..Len(results) : results[i].metadata = <<>>
                THEN [end |-> "throw", error |-> ErrorOf("TypeError", 0),
                      response |-> PendingResponse]
                ELSE [end |-> "return", error |-> ErrorOf("", 0),
                      response |-> Found(results,
                                         [i \in 1..Len(results) |-> floatOf(results[i])],
                                         processOceanographicData(llm, results))]
      [] OTHER ->
            [end |-> "return", error |-> ErrorOf("", 0),
             response |-> InvalidResponse(backend.body.status)]

\* semanticQuery whose try block has no catch
semanticQuery_NoCatch(backend, llm) ==
    LET body == queryBody(backend, llm)
    IN  IF body.end = "return" THEN body.response ELSE Uncaught(body.error)

semanticQuery(backend, llm) ==
    LET body == queryBody(backend, llm)
    IN  IF body.end = "return" THEN body.response ELSE Caught(body.error)

\* -------------------------------------------------- backend responses
Document(temperature, salinity, pressure) ==
    [temperature |-> temperature, salinity |-> salinity, pressure |-> pressure]

\* metadata is <<>> when the result has none
Result(float_id, profiles, document) ==
    [metadata |-> <<[float_id |-> float_id, lat |-> 35, lon |-> -120, date |-> "2024-01-01",
                     profiles |-> profiles]>>,
     document |-> document]

NoMetadata == [metadata |-> <<>>, document |-> Document(NoSentence, NoSentence, NoSentence)]

Results ==
    {\* b'12' with all three sentences
     Result(<<"b", "'", "1", "2", "'">>, 3,
            Document(Sentence(<<"2", ".", "0">>, <<"1", "0", ".", "0">>, <<"6", ".", "0">>), Sentence(<<"3", "4", ".", "0">>, <<"3", "5", ".", "5">>, <<"3", "4", ".", "8">>), Sentence(<<"0", ".", "0">>, <<"2", "0", "0", "0", ".", "0">>, <<"5", "0", "0", ".", "0">>))),
     \* an undecorated id and a document without sentences
     Result(<<"1", "2">>, 5, Document(NoSentence, NoSentence, NoSentence)),
     \* a temperature range that starts below zero, a mean of 0.0
     Result(<<"b", "'", "1", "2", "'">>, 3,
            Document(Sentence(<<"-", "1", ".", "5">>, <<"2", ".", "0">>, <<"0", ".", "3">>), Sentence(<<"3", "4", ".", "0">>, <<"3", "4", ".", "0">>, <<"0", ".", "0">>), NoSentence)),
     \* an id that ends in b
     Result(<<"b", "'", "7", "b", "'">>, 0, Document(NoSentence, Sentence(<<"3", "3", ".", "1">>, <<"3", "5", ".", "0">>, <<"3", "4", ".", "2">>), NoSentence)),
     NoMetadata}

ResultLists == {<<>>} \cup SeqsUpTo(Results, MaxResults)

Bodies ==
    {[kind |-> "null", status |-> "", results |-> [kind |-> "absent", items |-> <<>>]]}
    \cup
    {[kind |-> "object", status |-> status, results |-> results] :
        status \in {"success", "error", ""},
        results \in {[kind |-> "absent", items |-> <<>>], [kind |-> "other", items |-> <<>>]}
                    \cup {[kind |-> "list", items |-> items] : items \in ResultLists}}

NoBody == [kind |-> "null", status |-> "", results |-> [kind |-> "absent", items |-> <<>>]]

BackendReplies ==
    {[kind |-> "network", error |-> ErrorOf("Failed to fetch", 0), httpStatus |-> 0,
      body |-> NoBody],
     [kind |-> "unparsable", error |-> ErrorOf("", 0), httpStatus |-> 200, body |-> NoBody]}
    \cup
    {[kind |-> "http", error |-> ErrorOf("", 0), httpStatus |-> status, body |-> NoBody] :
        status \in {404, 500}}
    \cup
    {[kind |-> "json", error |-> ErrorOf("", 0), httpStatus |-> 200, body |-> body] :
        body \in Bodies}

LlmReplies == {"nokey", "network", "http", "nochoices", "nocontent", "content"}

\* ------------------------------------------------ the remote-query call
InitQuery ==
    /\ InitState /\ storage = Absent
    /\ NoUpload /\ NoView
    /\ backendReply \in BackendReplies
    /\ llmReply \in LlmReplies
    /\ queryResponse = PendingResponse

\* one call of semanticQuery, up to the settling of its promise
SemanticQuery ==
    /\ queryResponse.settled = "pending"
    /\ queryResponse' = semanticQuery(backendReply, llmReply)
    /\ UNCHANGED <<pc, isOpen, currentChat, chatHistory, isVisualizationPanelOpen,
                   selectedFloatData, isUploading, error, storage, now, idCount,
                   uploadVars, backendReply, llmReply, viewVars>>

NextQuery == SemanticQuery

SpecQuery == InitQuery /\ [][NextQuery]_vars

\* ============================================================ dashboard
\* Dashboard.tsx: processVisualizationData turns the selected payload into
\* float rows and chart series.  Coordinates are in thousandths of a degree;
\* the measured values (temperature, salinity, time), which the code perturbs
\* with Math.random(), are left out of the rows.
MaxProfiles == 2        \* samples in a payload's profiles array

Float(id, lat, lon, depth) == [id |-> id, lat |-> lat, lon |-> lon, depth |-> depth]

\* a row built without a depth property
NoDepth == -1

generateFallbackFloats ==
    << Float(0, -34511, 65925, 628),
       Float(1, -22599, 79214, 658),
       Float(2, -12277, 49769, 432) >>

Sample(depth, latitude, longitude) ==
    [depth |-> depth, latitude |-> latitude, longitude |-> longitude]

\* the elements of s at the indices in keep, in order
Keep(s, keep) ==
    LET indexed == [i \in 1..Len(s) |-> [i |-> i, v |-> s[i]]]
        kept    == SelectSeq(indexed, LAMBDA e : e.i \in keep)
    IN  [k \in 1..Len(kept) |-> kept[k].v]

MaxOf(S) == CHOOSE x \in S : \A y \in S : y <= x

\* the numbers of S in ascending order: sort((a, b) => a - b)
RECURSIVE Ascending(_)
Ascending(S) ==
    IF S = {} THEN <<>>
    ELSE LET least == CHOOSE x \in S : \A y \in S : x <= y
         IN  <<least>> \o Ascending(S \ {least})

\* Object.keys(locationMap): the distinct coordinates in order of first occurrence
locationKeys(profiles) ==
    LET keys == [i \in 1..Len(profiles) |-> <<profiles[i].latitude, profiles[i].longitude>>]
    IN  Keep(keys, {i \in 1..Len(keys) : \A j \in 1..(i - 1) : keys[j] /= keys[i]})

\* one float per distinct coordinate, its depth the deepest sample there
locationFloats(profiles) ==
    LET keys == locationKeys(profiles)
    IN  [g \in 1..Len(keys) |->
            Float(g - 1, keys[g][1], keys[g][2],
                  MaxOf({profiles[i].depth : i \in
                            {j \in 1..Len(profiles) :
                                <<profiles[j].latitude, profiles[j].longitude>> = keys[g]}}))]

depthRanges == << [min |-> 0, max |-> 50], [min |-> 50, max |-> 200],
                  [min |-> 200, max |-> 500], [min |-> 500, max |-> 1000] >>

rangeProfiles(profiles, range) ==
    SelectSeq(profiles, LAMBDA q : q.depth >= range.min /\ q.depth < range.max)

SumOf(f, n) ==
    LET RECURSIVE upTo(_)
        upTo(k) == IF k = 0 THEN 0 ELSE f[k] + upTo(k - 1)
    IN  upTo(n)

\* Number(x.toFixed(0)) of the mean of the depths, for whole-metre depths
avgDepth(profiles) ==
    LET total == SumOf([i \in 1..Len(profiles) |-> profiles[i].depth], Len(profiles))
    IN  (2 * total + Len(profiles)) \div (2 * Len(profiles))

\* the depth-range grouping: one float per range that holds a sample, its
\* coordinates moved by (index - 2) * 0.1 degrees
depthRangeFloats(profiles) ==
    LET filled == Keep(depthRanges, {i \in 1..Len(depthRanges) :
                                   Len(rangeProfiles(profiles, depthRanges[i])) > 0})
        indexOf(range) == (CHOOSE i \in 1..Len(depthRanges) : depthRanges[i] = range) - 1
    IN  [k \in 1..Len(filled) |->
            LET inRange == rangeProfiles(profiles, filled[k])
                index   == indexOf(filled[k])
            IN  Float(index, inRange[1].latitude + (index - 2) * 100,
                      inRange[1].longitude + (index - 2) * 100, avgDepth(inRange))]

\* isRealBackendData
isRealBackendData(profiles) ==
    /\ Len(profiles) > 10
    /\ \E i \in 1..Len(profiles) : profiles[i].latitude /= profiles[1].latitude

\* charts.depthTemp.depth / charts.depthSal.depth: the distinct depths, ascending
chartsOf(profiles) == [depth |-> Ascending({profiles[i].depth : i \in 1..Len(profiles)})]

\* the synthetic samples of one float: the depth steps down to the deepest depth
depthSteps(deepest) == <<0, 50, 100, 200, 500, 1000, Min(deepest, 2000)>>

floatProfiles(deepest, latitude, longitude) ==
    LET steps == SelectSeq(depthSteps(deepest), LAMBDA d : d <= deepest)
    IN  [i \in 1..Len(steps) |-> Sample(steps[i], latitude, longitude)]

RECURSIVE Flatten(_)
Flatten(lists) == IF lists = <<>> THEN <<>> ELSE Head(lists) \o Flatten(Tail(lists))

\* what one run of the if / else-if chain leaves in floats, profiles and charts
Processed(floats, profiles) == [floats |-> floats, profiles |-> profiles]

\* a selected payload: a property that is absent is <<>>, one that is present
\* is <<value>>; t is "str" for a payload that is itself a string
PayloadOf(t, profiles, results, content, floatSummaries) ==
    [t |-> t, profiles |-> profiles, results |-> results, content |-> content,
     floatSummaries |-> floatSummaries]

\* an element of data.results: null, or a record whose metadata has lat and lon
\* and no pressure fields (pressMax is then 2000, pressMean 1000)
NullResult == [isNull |-> TRUE, lat |-> 0, lon |-> 0]
ResultAt(lat, lon) == [isNull |-> FALSE, lat |-> lat, lon |-> lon]

\* the results branch: the loop stops at the first element it cannot read, the
\* catch replaces floats and keeps the samples pushed so far
resultsBranch(results) ==
    LET n     == Min(Len(results), 10)
        bad   == {i \in 1..n : results[i].isNull}
        done  == IF bad = {} THEN n ELSE (CHOOSE i \in bad : \A j \in bad : i <= j) - 1
        pushed == Flatten([i \in 1..done |-> floatProfiles(2000, results[i].lat, results[i].lon)])
    IN  IF bad = {}
        THEN Processed([i \in 1..n |-> Float(i - 1, results[i].lat, results[i].lon, 1000)], pushed)
        ELSE Processed(generateFallbackFloats, pushed)

\* ExtractedFloatData as far as the dashboard reads it; an item without a depth
\* object makes extracted.depth.max throw
Extracted(latitude, longitude, depthMax, depthMean) ==
    [hasDepth |-> TRUE, latitude |-> latitude, longitude |-> longitude,
     depthMax |-> depthMax, depthMean |-> depthMean]
ExtractedWithoutDepth == [Extracted(0, 0, 0, 0) EXCEPT !.hasDepth = FALSE]

\* what the awaited extraction yields: a list of items, or a value without map
NotAList == [isList |-> FALSE, items |-> <<>>]
ListOf(items) == [isList |-> TRUE, items |-> items]

\* the text branch after the await
textBranch(extractedData) ==
    IF ~extractedData.isList
    THEN Processed(generateFallbackFloats, <<>>)
    ELSE LET items == extractedData.items
             bad   == {i \in 1..Len(items) : ~items[i].hasDepth}
             done  == IF bad = {} THEN Len(items)
                      ELSE (CHOOSE i \in bad : \A j \in bad : i <= j) - 1
             pushed == Flatten([i \in 1..done |->
                           floatProfiles(items[i].depthMax, items[i].latitude, items[i].longitude)])
         IN  IF bad = {}
             THEN Processed([i \in 1..Len(items) |->
                                Float(i - 1, items[i].latitude, items[i].longitude,
                                      items[i].depthMean)], pushed)
             ELSE Processed(generateFallbackFloats, pushed)

\* an element of data.floatSummaries, with the coordinates its location text gives
SummaryAt(lat, lon) == [lat |-> lat, lon |-> lon]

summariesBranch(floatSummaries) ==
    Processed([i \in 1..Len(floatSummaries) |->
                  Float(i - 1, floatSummaries[i].lat, floatSummaries[i].lon, NoDepth)], <<>>)

\* the example branch: profiles = data.profiles, then one of the two groupings
exampleBranch(profiles) ==
    Processed(IF isRealBackendData(profiles)
              THEN locationFloats(profiles)
              ELSE depthRangeFloats(profiles), profiles)

IsText(data) == data.t = "str" \/ data.content /= <<>>

\* the branches that do not await, in the order of the chain
syncBranches(data) ==
    IF data.profiles /= <<>> /\ Len(data.profiles[1]) > 0
    THEN Processed(locationFloats(data.profiles[1]), data.profiles[1])
    ELSE IF data.results /= <<>>
    THEN resultsBranch(data.results[1])
    ELSE IF data.floatSummaries /= <<>>
    THEN summariesBranch(data.floatSummaries[1])
    ELSE IF data.profiles /= <<>>
    THEN exampleBranch(data.profiles[1])
    ELSE Processed(generateFallbackFloats, <<>>)

\* the end of processVisualizationData: the three setters are inside the
\* if (profiles.length > 0) block
Displayed(processed) == Len(processed.profiles) > 0

\* ----------------------------------------------------------- data table
\* DataTable.tsx: the column headers that call handleSort, as far as the rows
\* carry them.  An id i stands for the text float_i (i below 10, where
\* localeCompare orders the texts as the numbers).
SortFields == {"id", "lat", "lon"}

\* the comparator of filtered.sort: aValue - bValue (localeCompare for id),
\* negated for "desc"
comparison(a, b, field, direction) ==
    LET c == IF field = "id" THEN a.id - b.id
             ELSE IF field = "lat" THEN a.lat - b.lat
             ELSE a.lon - b.lon
    IN  IF direction = "desc" THEN -c ELSE c

\* Array.prototype.sort is stable: x goes in front of the first element that
\* compares greater than it
RECURSIVE Insert(_, _, _, _)
Insert(rows, x, field, direction) ==
    IF rows = <<>> THEN <<x>>
    ELSE IF comparison(Head(rows), x, field, direction) > 0
         THEN <<x>> \o rows
         ELSE <<Head(rows)>> \o Insert(Tail(rows), x, field, direction)

RECURSIVE sort(_, _, _)
sort(rows, field, direction) ==
    IF rows = <<>> THEN <<>>
    ELSE Insert(sort(SubSeq(rows, 1, Len(rows) - 1), field, direction),
                rows[Len(rows)], field, direction)

\* the search filter for a term that is the text of an id: filter returns a
\* new array
filter(rows, term) == SelectSeq(rows, LAMBDA row : row.id = term[1])

\* the useMemo callback: filtered is data itself unless a filter made a new
\* array, and filtered.sort works in place; data is the array after the call
memo(data, term, field, direction) ==
    LET filtered == IF term /= <<>> THEN filter(data, term) ELSE data
        sorting  == field /= <<>> /\ direction /= <<>>
        result   == IF sorting THEN sort(filtered, field[1], direction[1]) ELSE filtered
    IN  [data |-> IF sorting /\ term = <<>> THEN result ELSE data, shown |-> result]

\* a render of the table with the given props and state; floatData and
\* tableData are the one array that setFloatData and setTableData were given
Render(data, term, field, direction) ==
    LET m == memo(data, term, field, direction)
    IN  /\ tableData' = m.data
        /\ floatData' = m.data
        /\ filteredAndSortedData' = m.shown

\* the sort state after handleSort(field)
nextSort(field) ==
    IF sortField = <<field>>
    THEN IF sortDirection = <<"asc">> THEN [field |-> sortField, direction |-> <<"desc">>]
         ELSE IF sortDirection = <<"desc">> THEN [field |-> <<>>, direction |-> <<>>]
         ELSE [field |-> sortField, direction |-> <<"asc">>]
    ELSE [field |-> <<field>>, direction |-> <<"asc">>]

\* a click on a column header; the table is rendered while tableData has rows
handleSort(field) ==
    /\ Len(tableData) > 0
    /\ sortField' = nextSort(field).field
    /\ sortDirection' = nextSort(field).direction
    /\ Render(tableData, searchTerm, nextSort(field).field, nextSort(field).direction)
    /\ UNCHANGED <<searchTerm, chartData, effectSeen, extractions>>
    /\ UNCHANGED <<pc, isOpen, currentChat, chatHistory, isVisualizationPanelOpen,
                   selectedFloatData, isUploading, error, storage, now, idCount>>
    /\ UNCHANGED <<uploadVars, queryVars, chatVars>>

\* typing in the search box
setSearchTerm(term) ==
    /\ Len(tableData) > 0
    /\ searchTerm' = term
    /\ Render(tableData, term, sortField, sortDirection)
    /\ UNCHANGED <<sortField, sortDirection, chartData, effectSeen, extractions>>
    /\ UNCHANGED <<pc, isOpen, currentChat, chatHistory, isVisualizationPanelOpen,
                   selectedFloatData, isUploading, error, storage, now, idCount>>
    /\ UNCHANGED <<uploadVars, queryVars, chatVars>>

\* ---------------------------------------------------- dashboard's effect
\* the three setters, then the render of the table with the new data prop
Show(processed) ==
    IF Displayed(processed)
    THEN /\ Render(processed.floats, searchTerm, sortField, sortDirection)
         /\ chartData' = chartsOf(processed.profiles)
    ELSE UNCHANGED <<floatData, tableData, filteredAndSortedData, chartData>>

\* the branch that awaits the text extraction is the third of the chain
Awaits(data) ==
    /\ ~(data.profiles /= <<>> /\ Len(data.profiles[1]) > 0)
    /\ data.results = <<>>
    /\ IsText(data)

\* the effect on [state.selectedFloatData]: processVisualizationData up to its
\* end or up to the await, with data captured from this render
processVisualizationData ==
    /\ effectSeen /= selectedFloatData
    /\ effectSeen' = selectedFloatData
    /\ IF selectedFloatData.t = "null"
       THEN UNCHANGED <<floatData, tableData, filteredAndSortedData, chartData, extractions>>
       ELSE IF Awaits(selectedFloatData)
       THEN /\ extractions' = extractions \cup {selectedFloatData}
            /\ UNCHANGED <<floatData, tableData, filteredAndSortedData, chartData>>
       ELSE /\ Show(syncBranches(selectedFloatData))
            /\ UNCHANGED extractions
    /\ UNCHANGED <<sortField, sortDirection, searchTerm>>
    /\ UNCHANGED <<pc, isOpen, currentChat, chatHistory, isVisualizationPanelOpen,
                   selectedFloatData, isUploading, error, storage, now, idCount>>
    /\ UNCHANGED <<uploadVars, queryVars, chatVars>>

\* extractFloatDataFromAIResponse settles for one suspended call, which goes on
\* with the floats of its own text
extractionSettles(data, extractedData) ==
    /\ data \in extractions
    /\ extractions' = extractions \ {data}
    /\ Show(textBranch(extractedData))
    /\ UNCHANGED <<effectSeen, sortField, sortDirection, searchTerm>>
    /\ UNCHANGED <<pc, isOpen, currentChat, chatHistory, isVisualizationPanelOpen,
                   selectedFloatData, isUploading, error, storage, now, idCount>>
    /\ UNCHANGED <<uploadVars, queryVars, chatVars>>

\* handleVisualize: the Visualize button of a reply; the effect of the
\* previous render has run by the next click
handleVisualize(payload) ==
    /\ effectSeen = selectedFloatData
    /\ OpenVisualizationPanel(payload)

\* the store after the startup load found nothing stored
ReadyState ==
    /\ pc = "ready"
    /\ isOpen = FALSE
    /\ currentChat = <<>>
    /\ chatHistory = ArrayOf(<<>>)
    /\ isUploading = FALSE
    /\ error = <<>>
    /\ storage = Absent
    /\ now = 0
    /\ idCount = 0

\* ------------------------------------------------------ dashboard inputs
Latitudes == {10000, 20000}
Depths    == {10, 300}

Samples == {Sample(d, lat, -120000) : d \in Depths, lat \in Latitudes}

ProfileLists == SeqsUpTo(Samples, MaxProfiles)

EmptyObject == PayloadOf("obj", <<>>, <<>>, <<>>, <<>>)

ProfilePayloads == {PayloadOf("obj", <<profiles>>, <<>>, <<>>, <<>>) : profiles \in ProfileLists}

TextContent == <<"t">>

OtherPayloads ==
    { EmptyObject,
      PayloadOf("obj", <<<<>>>>, <<>>, <<>>, <<>>),
      PayloadOf("obj", <<>>, <<<<>>>>, <<>>, <<>>),
      PayloadOf("obj", <<>>, << <<ResultAt(35000, -120000)>> >>, <<>>, <<>>),
      PayloadOf("obj", <<>>, << <<NullResult>> >>, <<>>, <<>>),
      PayloadOf("obj", <<>>, << <<ResultAt(35000, -120000), NullResult>> >>, <<>>, <<>>),
      PayloadOf("str", <<>>, <<>>, <<>>, <<>>),
      PayloadOf("obj", <<>>, <<>>, <<TextContent>>, <<>>),
      PayloadOf("obj", <<>>, <<>>, <<>>, << <<SummaryAt(-54700, 52263)>> >>) }

DashPayloads == ProfilePayloads \cup OtherPayloads

\* what the extraction can settle with
ExtractedLists ==
    { NotAList, ListOf(<<>>),
      ListOf(<<Extracted(-34511, 65925, 2000, 1000)>>),
      ListOf(<<Extracted(-34511, 65925, 2000, 1000), ExtractedWithoutDepth>>),
      ListOf(<<ExtractedWithoutDepth>>) }

InitDashboard ==
    /\ ReadyState
    /\ isVisualizationPanelOpen = FALSE
    /\ selectedFloatData = NullFloatData
    /\ NoUpload /\ NoQuery /\ NoView

NextDashboard ==
    \/ \E payload \in DashPayloads : handleVisualize(payload)
    \/ processVisualizationData
    \/ \E data \in DashPayloads, extractedData \in ExtractedLists :
           extractionSettles(data, extractedData)

SpecDashboard == InitDashboard /\ [][NextDashboard]_vars

\* the dashboard once it has processed a payload with samples
InitTable ==
    /\ ReadyState
    /\ isVisualizationPanelOpen = TRUE
    /\ selectedFloatData \in ProfilePayloads
    /\ effectSeen = selectedFloatData
    /\ floatData = locationFloats(selectedFloatData.profiles[1])
    /\ tableData = floatData
    /\ filteredAndSortedData = floatData
    /\ chartData = chartsOf(selectedFloatData.profiles[1])
    /\ extractions = {}
    /\ sortField = <<>> /\ sortDirection = <<>> /\ searchTerm = <<>>
    /\ NoUpload /\ NoQuery /\ NoChat

SearchTerms == {<<>>, <<0>>}

NextTable ==
    \/ \E field \in SortFields : handleSort(field)
    \/ \E term \in SearchTerms : setSearchTerm(term)

SpecTable == InitTable /\ [][NextTable]_vars

\* ======================================================= chat interface
\* ChatInterface.tsx: the handlers that await a network call.  A handler runs
\* from one await to the next as one step; the steps of different calls
\* interleave with the user's actions.  FloatChat renders ChatInterface only
\* while the overlay is open, so isProcessing and isMapMode belong to the
\* rendered instance and start again at false after a close and reopen, while
\* a suspended call goes on and dispatches to the store when it settles.
UserMessage   == [type |-> "user", content |-> <<"q">>, floatData |-> NoFloatData]
MapMessage    == [type |-> "user", content |-> <<"m">>, floatData |-> NoFloatData]
UploadMessage == [type |-> "user", content |-> <<"f">>, floatData |-> NoFloatData]
Answer        == [type |-> "assistant", content |-> AssistantContent, floatData |-> NoFloatData]
ErrorReply    == [type |-> "assistant", content |-> <<"e", "r", "r">>, floatData |-> NoFloatData]

\* formatted answer, or the message of the else branch / the catch block
Replies == {Answer, ErrorReply}

\* a handler call suspended at an await: the conversation that was current when
\* it started, the id of the user message it added (0 for an upload, which
\* adds its message later), whether the instance that started it is gone
Op(kind, message, chat, isNetCDF) ==
    [kind |-> kind, message |-> message, chat |-> chat, orphan |-> FALSE,
     stage |-> 1, isNetCDF |-> isNetCDF]

\* ADD_MESSAGE dispatched for each payload in turn
RECURSIVE added(_, _, _, _, _)
added(chat, items, id, t, payloads) ==
    IF payloads = <<>>
    THEN [chat |-> chat, items |-> items, id |-> id, t |-> t]
    ELSE LET newMessage  == [type |-> Head(payloads).type, content |-> Head(payloads).content,
                             floatData |-> Head(payloads).floatData,
                             id |-> id + 1, timestamp |-> t]
             updatedChat == updatedChatOf(chat, newMessage, t)
         IN  added(updatedChat, updatedHistoryOf(items, updatedChat), id + 1, t + 1,
                   Tail(payloads))

addMessages(payloads) ==
    IF currentChat = <<>>
    THEN UNCHANGED <<currentChat, chatHistory, storage, idCount, now>>
    ELSE LET after == added(currentChat[1], chatHistory.items, idCount, now, payloads)
         IN  /\ currentChat' = <<after.chat>>
             /\ chatHistory' = ArrayOf(after.items)
             /\ storage' = Stringify(after.items)
             /\ idCount' = after.id
             /\ now' = after.t

\* identifiers are bounded by MaxIds: a step that needs n of them leaves one
\* for the reply of every text send that is still suspended
Room(n) == idCount + Cardinality({op \in inflight : op.kind = "send"}) + n <= MaxIds

\* the overlay is on screen
Shown == pc = "ready" /\ isOpen /\ mounted

\* TryFloatChatButton
openChat ==
    /\ ~isOpen /\ ~mounted
    /\ OpenChat

\* FloatChat renders ChatInterface: a new instance with its initial state
Mount ==
    /\ isOpen /\ ~mounted
    /\ mounted' = TRUE
    /\ isProcessing' = FALSE
    /\ isMapMode' = FALSE
    /\ UNCHANGED <<inflight, dashVars, tableVars, uploadVars, queryVars>>
    /\ UNCHANGED <<pc, isOpen, currentChat, chatHistory, isVisualizationPanelOpen,
                   selectedFloatData, isUploading, error, storage, now, idCount>>

\* the close button and the backdrop
handleClose ==
    /\ Shown
    /\ CloseChat

\* FloatChat returns null: the instance and its state are gone, the calls it
\* started stay suspended
Unmount ==
    /\ ~isOpen /\ mounted
    /\ mounted' = FALSE
    /\ isProcessing' = FALSE
    /\ isMapMode' = FALSE
    /\ inflight' = {[op EXCEPT !.orphan = TRUE] : op \in inflight}
    /\ UNCHANGED <<dashVars, tableVars, uploadVars, queryVars>>
    /\ UNCHANGED <<pc, isOpen, currentChat, chatHistory, isVisualizationPanelOpen,
                   selectedFloatData, isUploading, error, storage, now, idCount>>

\* the effect that creates a conversation when there is none
createChatEffect ==
    /\ Shown
    /\ currentChat = <<>>
    /\ Room(1)
    /\ CreateNewChat

\* ChatHistory's New Chat button and its list of conversations
handleCreateNewChat ==
    /\ Shown
    /\ Room(1)
    /\ CreateNewChat

handleLoadChat(chatId) ==
    /\ Shown
    /\ find(chatHistory.items, chatId) /= <<>>
    /\ LoadChat(chatId)

\* handleSendMessage up to the await; the textarea and the send button are
\* shown in text mode and disabled while isProcessing or state.isUploading
handleSendMessage ==
    /\ Shown
    /\ ~isMapMode
    /\ ~isUploading
    /\ currentChat /= <<>> /\ ~isProcessing
    /\ Room(2)
    /\ isProcessing' = TRUE
    /\ addMessages(<<UserMessage>>)
    /\ inflight' = inflight \cup {Op("send", idCount + 1, currentChat[1].id, FALSE)}
    /\ UNCHANGED <<pc, isOpen, isVisualizationPanelOpen, selectedFloatData, isUploading, error>>
    /\ UNCHANGED <<mounted, isMapMode, dashVars, tableVars, uploadVars, queryVars>>

\* the Text and Map buttons, disabled while isProcessing
setIsMapMode(mode) ==
    /\ Shown
    /\ ~isProcessing
    /\ isMapMode' = mode
    /\ UNCHANGED <<mounted, isProcessing, inflight, dashVars, tableVars, uploadVars, queryVars>>
    /\ UNCHANGED <<pc, isOpen, currentChat, chatHistory, isVisualizationPanelOpen,
                   selectedFloatData, isUploading, error, storage, now, idCount>>

\* handleMapSearch up to the await; MapSearchMode is shown in map mode and its
\* button is disabled while isSearching, which is isProcessing
handleMapSearch ==
    /\ Shown
    /\ isMapMode
    /\ currentChat /= <<>> /\ ~isProcessing
    /\ Room(1)
    /\ isProcessing' = TRUE
    /\ isMapMode' = FALSE
    /\ addMessages(<<MapMessage>>)
    /\ inflight' = inflight \cup {Op("map", idCount + 1, currentChat[1].id, FALSE)}
    /\ UNCHANGED <<pc, isOpen, isVisualizationPanelOpen, selectedFloatData, isUploading, error>>
    /\ UNCHANGED <<mounted, dashVars, tableVars, uploadVars, queryVars>>

\* handleFileUpload up to its first await; the upload button is shown in text
\* mode and disabled while state.isUploading or isProcessing
handleFileUpload(isNetCDF) ==
    /\ Shown
    /\ ~isMapMode
    /\ ~isUploading /\ ~isProcessing
    /\ currentChat /= <<>>
    /\ isUploading' = TRUE
    /\ error' = <<>>
    /\ inflight' = inflight \cup {Op("upload", 0, currentChat[1].id, isNetCDF)}
    /\ UNCHANGED <<pc, isOpen, currentChat, chatHistory, isVisualizationPanelOpen,
                   selectedFloatData, storage, now, idCount>>
    /\ UNCHANGED <<mounted, isProcessing, isMapMode, dashVars, tableVars, uploadVars,
                   queryVars>>

\* querySettles that leaves isProcessing as it is
querySettles_NoFinally(message, reply) ==
    \E op \in inflight :
        /\ op.message = message /\ op.kind \in {"send", "map"}
        /\ pc = "ready"
        /\ op.kind = "map" => Room(1)
        /\ addMessages(<<reply>>)
        /\ inflight' = inflight \ {op}
        /\ UNCHANGED <<pc, isOpen, isVisualizationPanelOpen, selectedFloatData, isUploading,
                       error>>
        /\ UNCHANGED <<mounted, isProcessing, isMapMode, dashVars, tableVars, uploadVars,
                       queryVars>>

\* semanticQuery settles for a text send or a map search: one ADD_MESSAGE from
\* the try block or from the catch block, then finally setIsProcessing(false),
\* which sets the state of the instance that made the call
querySettles(message, reply) ==
    \E op \in inflight :
        /\ op.message = message /\ op.kind \in {"send", "map"}
        /\ pc = "ready"
        /\ op.kind = "map" => Room(1)
        /\ addMessages(<<reply>>)
        /\ isProcessing' = IF op.orphan THEN isProcessing ELSE FALSE
        /\ inflight' = inflight \ {op}
        /\ UNCHANGED <<pc, isOpen, isVisualizationPanelOpen, selectedFloatData, isUploading,
                       error>>
        /\ UNCHANGED <<mounted, isMapMode, dashVars, tableVars, uploadVars, queryVars>>

\* what the awaited upload call yields
UploadOutcomes == {"success", "failure", "rejected"}

\* uploadNetCDFFile or uploadFile settles.  A NetCDF upload that succeeded
\* adds the user message and awaits semanticQuery; every other outcome adds
\* its messages and reaches finally in the same step
uploadSettles(outcome) ==
    \E op \in inflight :
        /\ op.kind = "upload" /\ op.stage = 1
        /\ pc = "ready"
        /\ IF op.isNetCDF /\ outcome = "success"
           THEN /\ Room(1)
                /\ addMessages(<<UploadMessage>>)
                /\ inflight' = (inflight \ {op}) \cup {[op EXCEPT !.stage = 2]}
                /\ UNCHANGED isUploading
           ELSE /\ Room(2)
                /\ addMessages(IF outcome = "rejected" THEN <<ErrorReply>>
                               ELSE IF outcome = "success" THEN <<UploadMessage, Answer>>
                               ELSE <<UploadMessage, ErrorReply>>)
                /\ inflight' = inflight \ {op}
                /\ isUploading' = FALSE
        /\ UNCHANGED <<pc, isOpen, isVisualizationPanelOpen, selectedFloatData, error>>
        /\ UNCHANGED <<mounted, isProcessing, isMapMode, dashVars, tableVars, uploadVars,
                       queryVars>>

\* the semanticQuery of a NetCDF upload settles
analysisSettles(reply) ==
    \E op \in inflight :
        /\ op.kind = "upload" /\ op.stage = 2
        /\ pc = "ready"
        /\ Room(1)
        /\ addMessages(<<reply>>)
        /\ inflight' = inflight \ {op}
        /\ isUploading' = FALSE
        /\ UNCHANGED <<pc, isOpen, isVisualizationPanelOpen, selectedFloatData, error>>
        /\ UNCHANGED <<mounted, isProcessing, isMapMode, dashVars, tableVars, uploadVars,
                       queryVars>>

InitChat == InitState /\ storage \in WrittenStorage /\ NoUpload /\ NoQuery /\ NoView

MessageIds == 1..MaxIds

NextChat ==
    \/ Startup
    \/ openChat
    \/ Mount
    \/ handleClose
    \/ Unmount
    \/ createChatEffect
    \/ handleCreateNewChat
    \/ \E chatId \in ChatIds : handleLoadChat(chatId)
    \/ handleSendMessage
    \/ \E mode \in BOOLEAN : setIsMapMode(mode)
    \/ handleMapSearch
    \/ \E isNetCDF \in BOOLEAN : handleFileUpload(isNetCDF)
    \/ \E message \in MessageIds, reply \in Replies : querySettles(message, reply)
    \/ \E outcome \in UploadOutcomes : uploadSettles(outcome)
    \/ \E reply \in Replies : analysisSettles(reply)

SpecChat == InitChat /\ [][NextChat]_vars

\* every outstanding request of a text send or map search eventually settles
RequestsSettle ==
    \A message \in MessageIds : WF_vars(\E reply \in Replies : querySettles(message, reply))

\* the overlay, the conversations, the text sends and the map searches: the
\* calls that await semanticQuery alone
NextSend ==
    \/ Startup
    \/ openChat
    \/ Mount
    \/ handleClose
    \/ Unmount
    \/ createChatEffect
    \/ handleCreateNewChat
    \/ \E chatId \in ChatIds : handleLoadChat(chatId)
    \/ handleSendMessage
    \/ \E mode \in BOOLEAN : setIsMapMode(mode)
    \/ handleMapSearch
    \/ \E message \in MessageIds, reply \in Replies : querySettles(message, reply)

SpecSendFair == InitChat /\ [][NextSend]_vars /\ RequestsSettle

\* ------------------------------------- vocabulary of the upload claims
Settled == uploadResult.settled /= "pending"

\* the promise resolved to a failure whose error is of the given kind
RejectedFor(kind) ==
    /\ uploadResult.settled = "resolved"
    /\ ~uploadResult.success
    /\ uploadResult.error /= <<>>
    /\ uploadResult.error[1].kind = kind

FiftyMiB == 50 * 1024 * 1024

NameEndsIn(ext) == endsWith(toLowerCase(file.name), ext)

\* C11: a file of more than 50 MiB gets a failure result that carries no
\* FloatData, whatever its name, type and content, and a file of at most
\* 50 MiB is never rejected for its size.
C11_SizeLimit ==
    Settled =>
        /\ file.size > FiftyMiB =>
              /\ uploadResult.settled = "resolved"
              /\ ~uploadResult.success
              /\ uploadResult.data = <<>>
        /\ file.size <= FiftyMiB => ~RejectedFor("size")

\* a readable, well-typed CSV of one byte more than the limit was rejected
C11_Witness ==
    /\ RejectedFor("size")
    /\ file.size = FiftyMiB + 1
    /\ file.type = "text/csv"
    /\ NameEndsIn(DotCsv)
    /\ file.content.readable

\* C12: a file within the size limit is rejected for its declared MIME type
\* exactly when the type is non-empty, is not in the allow-list, and the
\* name ends in none of .nc, .csv, .json.
C12_TypeRejection ==
    (Settled /\ file.size <= FiftyMiB) =>
        (RejectedFor("type") <=>
            /\ file.type /= ""
            /\ file.type \notin ALLOWED_TYPES
            /\ ~NameEndsIn(DotNc)
            /\ ~NameEndsIn(DotCsv)
            /\ ~NameEndsIn(DotJson))

\* C13: a readable file within the size limit whose name ends in .nc gets
\* the 'not yet implemented' NetCDF failure without FloatData, whatever its
\* declared MIME type, and no parser is run on it.
C13_NetCDFNotParsed ==
    (Settled /\ file.size <= FiftyMiB /\ file.content.readable /\ NameEndsIn(DotNc)) =>
        /\ RejectedFor("netcdf")
        /\ uploadResult.data = <<>>
        /\ parserCalls = <<>>

\* the entries of the input, in input order, as the parser that ran reads
\* them: one per CSV data row, one per element of a bare JSON array, the
\* elements of a JSON object's profiles array
EntriesOfInput ==
    LET csv  == file.content.csv
        json == file.content.json
    IN  IF parserCalls[Len(parserCalls)] = "csv"
        THEN [i \in 1..Len(csv.rows) |-> csvProfile(csv.header, csv.rows[i], i - 1)]
        ELSE IF json.kind = "array"
        THEN [i \in 1..Len(json.items) |-> jsonProfile(json.items[i], i - 1)]
        ELSE IF json.kind = "object" /\ json.profilesKind = "array"
        THEN json.items
        ELSE <<>>

\* C14: the FloatData of every successful result has at most 1000 profiles,
\* and they are the first entries of the input in input order.
C14_AtMostThousandProfiles ==
    (Settled /\ uploadResult.success) =>
        LET profiles == uploadResult.data[1].profiles
        IN  /\ Len(profiles) <= 1000
            /\ Len(profiles) = Min(1000, Len(EntriesOfInput))
            /\ profiles = SubSeq(EntriesOfInput, 1, Len(profiles))

\* the numeric fields of a profile and the column that names each
NumericFields == {"depth", "temperature", "salinity", "latitude", "longitude"}

ColumnOf(field) ==
    CASE field = "depth"       -> <<"d", "e", "p", "t", "h">>
      [] field = "temperature" -> <<"t", "e", "m", "p", "e", "r", "a", "t", "u", "r", "e">>
      [] field = "salinity"    -> <<"s", "a", "l", "i", "n", "i", "t", "y">>
      [] field = "latitude"    -> <<"l", "a", "t", "i", "t", "u", "d", "e">>
      [] field = "longitude"   -> <<"l", "o", "n", "g", "i", "t", "u", "d", "e">>
      [] field = "timestamp"   -> <<"t", "i", "m", "e", "s", "t", "a", "m", "p">>

Get(profile, field) ==
    CASE field = "depth"       -> profile.depth
      [] field = "temperature" -> profile.temperature
      [] field = "salinity"    -> profile.salinity
      [] field = "latitude"    -> profile.latitude
      [] field = "longitude"   -> profile.longitude
      [] field = "timestamp"   -> profile.timestamp

\* the upload succeeded by parsing the text as CSV
ParsedAsCsv == Settled /\ uploadResult.success /\ parserCalls = <<"csv">>

\* C15: a CSV with a depth column gives one profile per data row, in row
\* order, whose depth is the number in the row's depth cell, for every
\* number including 0 and at every row position; likewise for temperature,
\* salinity, latitude and longitude.
C15_CsvValuesKept ==
    ParsedAsCsv =>
        LET csv      == file.content.csv
            profiles == uploadResult.data[1].profiles
        IN  \A field \in NumericFields :
                \A c \in 1..Len(csv.header) :
                    csv.header[c] = ColumnOf(field) =>
                        /\ Len(profiles) = Min(1000, Len(csv.rows))
                        /\ \A i \in 1..Len(profiles) :
                              (c <= Len(csv.rows[i]) /\ parseFloat(csv.rows[i][c]).t = "num") =>
                                  Get(profiles[i], field) = parseFloat(csv.rows[i][c])


\* the recognised synonyms of each profile field, in lower case
Synonyms(field) ==
    CASE field = "depth"       -> {<<"d", "e", "p", "t", "h">>, <<"p", "r", "e", "s">>}
      [] field = "temperature" -> {<<"t", "e", "m", "p", "e", "r", "a", "t", "u", "r", "e">>, <<"t", "e", "m", "p">>}
      [] field = "salinity"    -> {<<"s", "a", "l", "i", "n", "i", "t", "y">>, <<"s", "a", "l">>}
      [] field = "timestamp"   -> {<<"t", "i", "m", "e", "s", "t", "a", "m", "p">>, <<"t", "i", "m", "e">>}
      [] field = "latitude"    -> {<<"l", "a", "t", "i", "t", "u", "d", "e">>, <<"l", "a", "t">>}
      [] field = "longitude"   -> {<<"l", "o", "n", "g", "i", "t", "u", "d", "e">>, <<"l", "o", "n">>}

\* a cell whose value can stand in the field: a number other than 0 (for 0
\* see C15), and for the timestamp a text
UsableCell(field, text) ==
    IF field = "timestamp"
    THEN transform(text).t = "str"
    ELSE transform(text).t = "num" /\ transform(text).n /= 0

\* C16: column names are matched case-insensitively: under every spelling
\* of a recognised synonym the column's value is the profile's field.
C16_ColumnNamesAnyCase ==
    ParsedAsCsv =>
        LET csv      == file.content.csv
            profiles == uploadResult.data[1].profiles
        IN  \A field \in NumericFields \cup {"timestamp"} :
                \A c \in 1..Len(csv.header) :
                    toLowerCase(csv.header[c]) \in Synonyms(field) =>
                        \A i \in 1..Len(profiles) :
                            (c <= Len(csv.rows[i]) /\ UsableCell(field, csv.rows[i][c])) =>
                                Get(profiles[i], field) = transform(csv.rows[i][c])

\* C17: the promise of uploadFile never rejects: for every file it resolves
\* to a result that carries fileInfo and is either a success with data and
\* preview or a failure with an error.
C17_NeverThrows ==
    Settled =>
        /\ uploadResult.settled = "resolved"
        /\ uploadResult.fileInfo = <<fileInfoOf(file)>>
        /\ \/ /\ uploadResult.success
              /\ uploadResult.data /= <<>>
              /\ uploadResult.preview /= <<>>
           \/ /\ ~uploadResult.success
              /\ uploadResult.error /= <<>>

\* malformed JSON in a .json file ended as a failure result
C17_Witness ==
    /\ RejectedFor("parse")
    /\ uploadResult.error[1].detail = "SyntaxError"
    /\ NameEndsIn(DotJson)
    /\ file.content.json.kind = "syntax"
    /\ uploadResult.fileInfo /= <<>>

\* -------------------------------------- vocabulary of the query claims
QuerySettled == queryResponse.settled /= "pending"

\* the backend answered with status 'success' and a list of results
SuccessWithList ==
    /\ backendReply.kind = "json"
    /\ backendReply.body.kind = "object"
    /\ backendReply.body.status = "success"
    /\ backendReply.body.results.kind = "list"

BackendResults == backendReply.body.results.items

\* ... and every result has its metadata
ResultSet ==
    /\ SuccessWithList
    /\ \A i \in 1..Len(BackendResults) : BackendResults[i].metadata /= <<>>

\* converting the results throws: results that are no list, or a result
\* without metadata
ConversionThrows ==
    /\ backendReply.kind = "json"
    /\ backendReply.body.kind = "object"
    /\ backendReply.body.status = "success"
    /\ \/ backendReply.body.results.kind = "other"
       \/ SuccessWithList /\ ~ResultSet

\* the error under a failure
UnderlyingError ==
    CASE backendReply.kind = "network"    -> backendReply.error
      [] backendReply.kind = "http"       ->
            ErrorOf("API request failed with status ", backendReply.httpStatus)
      [] backendReply.kind = "unparsable" -> ErrorOf("SyntaxError", 0)
      [] OTHER                            -> ErrorOf("TypeError", 0)

\* C18: semanticQuery never rejects: on a network error, a non-2xx status,
\* an unparsable body or an exception while converting results it resolves
\* to success = false with a message naming the backend URL and an error
\* carrying the underlying error text; success = true only for status
\* 'success' with a results list.
C18_QueryNeverRejects ==
    QuerySettled =>
        /\ queryResponse.settled = "resolved"
        /\ (backendReply.kind \in {"network", "http", "unparsable"} \/ ConversionThrows) =>
              /\ ~queryResponse.success
              /\ queryResponse.message.url = API_BASE_URL
              /\ queryResponse.error = <<UnderlyingError>>
        /\ queryResponse.success => SuccessWithList

\* a non-2xx status ended as a failure response with the status in its error
C18_Witness ==
    /\ backendReply.kind = "http"
    /\ backendReply.httpStatus = 500
    /\ queryResponse.settled = "resolved"
    /\ ~queryResponse.success
    /\ queryResponse.error = <<ErrorOf("API request failed with status ", 500)>>

\* float_id without a surrounding b'...'
Undecorated(id) ==
    IF Len(id) >= 3 /\ id[1] = "b" /\ id[2] = "'" /\ id[Len(id)] = "'"
    THEN SubSeq(id, 3, Len(id) - 1)
    ELSE id

\* the mean a sentence states, undefined when the sentence is not there
MeanOf(sentence) ==
    IF sentence.present THEN parseFloatChars(sentence.mean) ELSE Undefined

\* C19: for status 'success' and k results the response has exactly k
\* floats in result order; float i has result i's float_id without its
\* b'...' decoration, its lat, lon and date, and for temperature, salinity
\* and depth the mean of the document's sentence, unset exactly when the
\* sentence is absent.
C19_FloatsFromResults ==
    (QuerySettled /\ ResultSet) =>
        /\ queryResponse.success
        /\ LET floats == queryResponse.data[1].floats
           IN  /\ Len(floats) = Len(BackendResults)
               /\ \A i \in 1..Len(floats) :
                     LET metadata == BackendResults[i].metadata[1]
                         document == BackendResults[i].document
                     IN  /\ floats[i].id = Undecorated(metadata.float_id)
                         /\ floats[i].lat = metadata.lat
                         /\ floats[i].lon = metadata.lon
                         /\ floats[i].time = metadata.date
                         /\ floats[i].temperature = MeanOf(document.temperature)
                         /\ floats[i].salinity = MeanOf(document.salinity)
                         /\ floats[i].depth = MeanOf(document.pressure)

\* the sum of the results' metadata profile counts
SumOfProfiles ==
    LET RECURSIVE upTo(_)
        upTo(i) == IF i = 0 THEN 0
                   ELSE upTo(i - 1) + BackendResults[i].metadata[1].profiles
    IN  upTo(Len(BackendResults))

LlmUnavailable == llmReply \in {"nokey", "network", "http", "nochoices", "nocontent"}

\* C20: with a result set from the backend and the LLM unavailable,
\* semanticQuery resolves with success = true and a summary that contains
\* the number of results and the sum of their profile counts.
C20_FallbackSummary ==
    (QuerySettled /\ ResultSet /\ LlmUnavailable) =>
        /\ queryResponse.settled = "resolved"
        /\ queryResponse.success
        /\ queryResponse.data[1].summary.floatCount = Len(BackendResults)
        /\ queryResponse.data[1].summary.totalProfiles = SumOfProfiles

\* two results with 3 and 5 profiles were summarised after the LLM call failed
C20_Witness ==
    /\ QuerySettled /\ ResultSet
    /\ llmReply = "network"
    /\ Len(BackendResults) = 2
    /\ SumOfProfiles = 8
    /\ queryResponse.success
    /\ queryResponse.data[1].summary.totalProfiles = 8

\* ------------------------------------------- clearing the history, panel flag
\* the history list the store holds once a dispatched clear intent has been reduced
HistoryAfterClear == defaultCase(chatHistory)

\* C29: after the clear intent dispatched by the "Clear chat history" control
\* the store's history list is empty, and the stored item holds none of the
\* earlier conversations.
C29_ClearEmptiesHistory ==
    pc = "ready" =>
        /\ HistoryAfterClear = ArrayOf(<<>>)
        /\ storage.kind = "json" => storage.val = ArrayOf(<<>>)

\* C30: in every reachable state the visualization panel is open exactly when
\* a FloatData payload is selected.
C30_PanelOpenIffPayload ==
    isVisualizationPanelOpen <=> selectedFloatData.t /= "null"

\* -------------------------------------------------- dashboard and table
\* a payload with none of the properties the chain looks for
Unrecognised(data) ==
    /\ data.t = "obj"
    /\ data.profiles = <<>> /\ data.results = <<>>
    /\ data.content = <<>> /\ data.floatSummaries = <<>>

\* C21: when the dashboard processes a payload of no recognised shape, the
\* rows it displays (map/globe rows and table rows) become the fixed 3-entry
\* fallback list; the displayed list is not left empty.
C21_FallbackDisplayed ==
    [][ (processVisualizationData /\ Unrecognised(selectedFloatData)) =>
            /\ floatData' = generateFallbackFloats
            /\ tableData' = generateFallbackFloats
            /\ Len(floatData') = 3
      ]_vars

\* data that looks like the single built-in example: samples, all at one coordinate
LooksLikeExample(data) ==
    /\ data.t = "obj" /\ data.profiles /= <<>>
    /\ Len(data.profiles[1]) > 0
    /\ Len(locationKeys(data.profiles[1])) = 1
    /\ ~isRealBackendData(data.profiles[1])

NonEmptyRanges(profiles) ==
    {i \in 1..Len(depthRanges) : Len(rangeProfiles(profiles, depthRanges[i])) > 0}

\* C22: when the dashboard processes data that looks like the built-in
\* example, the samples are grouped into the four depth ranges and one row is
\* produced per range that holds a sample, not one row per coordinate.
C22_DepthRangeRows ==
    [][ (processVisualizationData /\ LooksLikeExample(selectedFloatData)) =>
            /\ Len(floatData') = Cardinality(NonEmptyRanges(selectedFloatData.profiles[1]))
            /\ \A i \in 1..Len(floatData') :
                   floatData'[i].id + 1 \in NonEmptyRanges(selectedFloatData.profiles[1])
      ]_vars

\* every processVisualizationData call has run to its end
ProcessingFinished == effectSeen = selectedFloatData /\ extractions = {}

\* what processing a payload by itself can leave in floats and profiles
OutcomesOf(data) ==
    IF Awaits(data)
    THEN {textBranch(extractedData) : extractedData \in ExtractedLists}
    ELSE {syncBranches(data)}

\* C27: once all dashboard processing has finished, the rows and the chart
\* series shown are those derived from the payload selected last, never those
\* of an earlier payload.
C27_ShowsLatestPayload ==
    (ProcessingFinished /\ selectedFloatData.t /= "null") =>
        \E outcome \in OutcomesOf(selectedFloatData) :
            /\ floatData = outcome.floats
            /\ tableData = outcome.floats
            /\ chartData = chartsOf(outcome.profiles)

\* the rows in the order processVisualizationData produced them
OriginalRows == locationFloats(selectedFloatData.profiles[1])

\* C28: sorting in the data table is view-only.  A click on a column header
\* takes that column through ascending, descending and unsorted; no sort
\* changes the order of the list the dashboard holds; and with the sort state
\* back at unsorted the rows are shown in the original order of the data.
C28_SortIsViewOnly ==
    [][ \A field \in SortFields :
            handleSort(field) =>
                /\ sortDirection' =
                       (IF sortField /= <<field>> THEN <<"asc">>
                        ELSE IF sortDirection = <<"asc">> THEN <<"desc">>
                        ELSE IF sortDirection = <<"desc">> THEN <<>>
                        ELSE <<"asc">>)
                /\ floatData' = floatData
                /\ tableData' = tableData
                /\ floatData' = OriginalRows
                /\ sortDirection' = <<>> =>
                       filteredAndSortedData' =
                           (IF searchTerm = <<>> THEN OriginalRows
                            ELSE filter(OriginalRows, searchTerm))
      ]_vars

\* ------------------------------------------------------- chat interface
\* C23: single-flight.  Whatever the order of text sends, map searches, file
\* uploads, mode switches and closing and reopening of the overlay, at most one
\* asynchronous chat operation is outstanding at any time.
C23_SingleFlight == Cardinality(inflight) <= 1

\* a response arrives: some suspended call goes on
ResponseArrives ==
    \/ \E message \in MessageIds, reply \in Replies : querySettles(message, reply)
    \/ \E outcome \in UploadOutcomes : uploadSettles(outcome)
    \/ \E reply \in Replies : analysisSettles(reply)

\* C24: a response that arrives while the overlay is closed is ignored: it
\* raises nothing, appends no message to any conversation and leaves the
\* stored history as it is.
C24_LateResponseIgnored ==
    [][ (~isOpen /\ ResponseArrives) =>
            /\ pc' = pc
            /\ currentChat' = currentChat
            /\ chatHistory' = chatHistory
            /\ storage' = storage
      ]_vars

\* the suspended text send that added the user message with this id
SendSuspended(message) ==
    \E op \in inflight : op.kind = "send" /\ op.message = message

SendOf(message) == CHOOSE op \in inflight : op.kind = "send" /\ op.message = message

\* C25: the assistant reply to a user message is appended to the conversation
\* that holds that user message, directly after it, whatever New Chat and
\* history selections happened while the request was in flight.
C25_ReplyInSameConversation ==
    [][ \A message \in MessageIds, reply \in Replies :
            (querySettles(message, reply) /\ SendSuspended(message)) =>
                \E i \in 1..Len(chatHistory'.items) :
                    LET chat == chatHistory'.items[i]
                    IN  /\ chat.id = SendOf(message).chat
                        /\ \E k \in 1..(Len(chat.messages) - 1) :
                               /\ chat.messages[k].id = message
                               /\ chat.messages[k + 1].id = idCount + 1
                               /\ chat.messages[k + 1].type = "assistant"
      ]_vars

\* C26: provided every outstanding request settles, every accepted text send
\* is followed by exactly one assistant message being appended (the answer or an
\* error message), and the processing flag of the instance that sent it is
\* false again; no outcome of the request leaves the send without a reply.
C26_EverySendAnswered ==
    /\ \A message \in MessageIds : SendSuspended(message) ~> ~SendSuspended(message)
    /\ [][ \A message \in MessageIds, reply \in Replies :
               (querySettles(message, reply) /\ SendSuspended(message)) =>
                   /\ currentChat /= <<>> /\ currentChat' /= <<>>
                   /\ Len(currentChat'[1].messages) = Len(currentChat[1].messages) + 1
                   /\ SubSeq(currentChat'[1].messages, 1, Len(currentChat[1].messages))
                          = currentChat[1].messages
                   /\ currentChat'[1].messages[Len(currentChat'[1].messages)].type = "assistant"
                   /\ currentChat'[1].messages[Len(currentChat'[1].messages)].content
                          = reply.content
                   /\ ~SendSuspended(message)'
                   /\ ~SendOf(message).orphan => ~isProcessing'
         ]_vars

\* a text send has been answered in the conversation on screen and the
\* interface accepts input again
C26_Witness ==
    /\ Shown /\ ~isProcessing /\ inflight = {}
    /\ currentChat /= <<>>
    /\ Len(currentChat[1].messages) = 2
    /\ currentChat[1].messages[1].content = UserMessage.content
    /\ currentChat[1].messages[2].type = "assistant"
    /\ currentChat[1].messages[2].content = ErrorReply.content
====
